---- MODULE Spec2Model ----
(***************************************************************************)
(* A model of the COVID-19 dashboard (src/COVID-19-DATA/src/App.js and its *)
(* utils module): the single fetch that builds the row list, the table     *)
(* filter, the pagination and the page-button window.                      *)
(*                                                                         *)
(* Conventions.                                                            *)
(*  - A JavaScript string is a sequence of one-character strings, so that  *)
(*    split, trim, toLowerCase, toFixed and the parsers are computed and   *)
(*    not assumed.                                                         *)
(*  - A JavaScript value held in a field is tagged: Str(s), Num(n), Null,  *)
(*    Undefined.  Numbers held in fields are integers; the quotients the   *)
(*    code forms (rates, means) are kept as exact fractions num/den until  *)
(*    toFixed renders them.                                                *)
(*  - A Date is Date(t) with t a day number (days since 1 January 1970,    *)
(*    local midnight), or InvalidDate when its time value is NaN.          *)
(***************************************************************************)
EXTENDS Integers, Sequences, FiniteSets, TLC

VARIABLES
    pc,              \* position of fetchData: "fetching", "loaded", "failed"
    response,        \* the answer of the HTTP GET, still in flight
    allData,         \* useState([]) line 105, mutated in place by fetchData
    SumCovidData,    \* useState([]) line 96
    minDate,         \* useState(null) line 81
    maxDate,         \* useState(null) line 83
    startDate,       \* useState(null) line 76
    endDate,         \* useState(null) line 78
    selectedCountry, \* useState('') line 73
    selectedColumn,  \* useState(null) line 86
    minValue,        \* useState('') line 88
    maxValue,        \* useState('') line 90
    itemsPerPage,    \* useState(10) line 67
    currentPage,     \* useState(1) line 64
    sortedColumn,    \* useState(null) line 102
    sortDirection,   \* useState('asc') line 99
    selectedTab,     \* useState('Table') line 93
    call,            \* a call of an exported function of utils.js, or NoCall
    outcome          \* what that call has returned or thrown, or Pending

vars == <<pc, response, allData, SumCovidData, minDate, maxDate, startDate,
          endDate, selectedCountry, selectedColumn, minValue, maxValue,
          itemsPerPage, currentPage, sortedColumn, sortDirection, selectedTab,
          call, outcome>>

(***************************************************************************)
(* JavaScript values                                                       *)
(***************************************************************************)
Str(s) == [t |-> "string", s |-> s]
Num(n) == [t |-> "number", n |-> n]
Null == [t |-> "null"]
Undefined == [t |-> "undefined"]

\* The name of a column, where a state variable holds a name or null.
Name(c) == [t |-> "name", name |-> c]

Date(time) == [t |-> "date", time |-> time]
InvalidDate == [t |-> "invalid-date"]

IsStr(v) == v.t = "string"
IsNum(v) == v.t = "number"

Abs(n) == IF n < 0 THEN -n ELSE n

RECURSIVE Pow10(_)
Pow10(k) == IF k = 0 THEN 1 ELSE 10 * Pow10(k - 1)

DigitChars == <<"0", "1", "2", "3", "4", "5", "6", "7", "8", "9">>

IsDigit(c) == \E i \in 1..10 : DigitChars[i] = c

DigitValue(c) == (CHOOSE i \in 1..10 : DigitChars[i] = c) - 1

\* The decimal digits of a natural number, most significant first.
RECURSIVE NatToString(_)
NatToString(n) ==
    IF n < 10 THEN <<DigitChars[n + 1]>>
    ELSE NatToString(n \div 10) \o <<DigitChars[(n % 10) + 1]>>

\* Number::toString of an integer.
IntToString(n) == IF n < 0 THEN <<"-">> \o NatToString(-n) ELSE NatToString(n)

\* The value of a non-empty all-digit string.
RECURSIVE DigitsToNat(_)
DigitsToNat(s) ==
    IF s = <<>> THEN 0
    ELSE 10 * DigitsToNat(SubSeq(s, 1, Len(s) - 1)) + DigitValue(s[Len(s)])

AllDigits(s) == s # <<>> /\ \A i \in 1..Len(s) : IsDigit(s[i])

RECURSIVE ZeroPad(_, _)
ZeroPad(s, width) == IF Len(s) >= width THEN s ELSE ZeroPad(<<"0">> \o s, width)

WhiteSpace == {" ", "\t", "\n", "\r"}

RECURSIVE TrimStart(_)
TrimStart(s) == IF s # <<>> /\ s[1] \in WhiteSpace THEN TrimStart(Tail(s)) ELSE s

RECURSIVE TrimEnd(_)
TrimEnd(s) ==
    IF s # <<>> /\ s[Len(s)] \in WhiteSpace THEN TrimEnd(SubSeq(s, 1, Len(s) - 1))
    ELSE s

\* String.prototype.trim
trim(s) == TrimEnd(TrimStart(s))

(***************************************************************************)
(* Numbers: exact fractions and their renderings                           *)
(***************************************************************************)
\* A finite quotient num/den (den > 0), or the non-finite result of a
\* division by zero or of arithmetic on undefined (Infinity, NaN).
Frac(num, den) == [finite |-> TRUE, num |-> num, den |-> den]
NonFinite == [finite |-> FALSE]

\* Number.prototype.toFixed(digits) of the finite number num/den: the nearest
\* multiple of 10^-digits, the larger one on a tie, with a "-" when the number
\* is below zero (ECMA-262 21.1.3.3).
toFixed(x, digits) ==
    LET a == Abs(x.num) * Pow10(digits)
        q == a \div x.den
        r == a % x.den
        n == IF 2 * r >= x.den THEN q + 1 ELSE q
        whole == NatToString(n \div Pow10(digits))
        frac == ZeroPad(NatToString(n % Pow10(digits)), digits)
        sign == IF x.num < 0 THEN <<"-">> ELSE <<>>
    IN  IF digits = 0 THEN sign \o whole ELSE sign \o whole \o <<".">> \o frac

\* The digits of the table's rate fields (line 149) and of the daily
\* aggregates (line 246).
RateDigits == 5
AggregateDigits == 4

\* Numbers are compared on a common scale of 10^-RateDigits, the finest
\* grain any string of the model carries.
Scale == Pow10(RateDigits)

NaN == [nan |-> TRUE]
Scaled(v) == [nan |-> FALSE, v |-> v]

\* The longest prefix of s made of digits.
RECURSIVE DigitPrefix(_)
DigitPrefix(s) ==
    IF s = <<>> \/ ~IsDigit(s[1]) THEN <<>>
    ELSE <<s[1]>> \o DigitPrefix(Tail(s))

\* The value, on the common scale, of the fraction digits f (at most
\* RateDigits of them are kept).
FractionValue(f) ==
    LET kept == SubSeq(f, 1, IF Len(f) < RateDigits THEN Len(f) ELSE RateDigits)
    IN  IF kept = <<>> THEN 0 ELSE DigitsToNat(kept) * Pow10(RateDigits - Len(kept))

\* parseFloat(input): the longest prefix, after leading white space, that is
\* a decimal literal (an optional sign, digits, an optional point and digits);
\* NaN when there is none.
parseFloat(input) ==
    LET s == TrimStart(input)
        neg == s # <<>> /\ s[1] = "-"
        body == IF s # <<>> /\ s[1] \in {"-", "+"} THEN Tail(s) ELSE s
        ip == DigitPrefix(body)
        rest == SubSeq(body, Len(ip) + 1, Len(body))
        fp == IF rest # <<>> /\ rest[1] = "." THEN DigitPrefix(Tail(rest)) ELSE <<>>
        mag == (IF ip = <<>> THEN 0 ELSE DigitsToNat(ip)) * Scale + FractionValue(fp)
    IN  IF ip = <<>> /\ fp = <<>> THEN NaN
        ELSE Scaled(IF neg THEN -mag ELSE mag)

\* ToNumber of a string (StringToNumber): the whole string, white space at
\* its ends apart, must be a decimal literal; the empty string is 0.
StringToNumber(input) ==
    LET s == trim(input)
        body == IF s # <<>> /\ s[1] \in {"-", "+"} THEN Tail(s) ELSE s
        ip == DigitPrefix(body)
        rest == SubSeq(body, Len(ip) + 1, Len(body))
        fp == IF rest # <<>> /\ rest[1] = "." THEN DigitPrefix(Tail(rest)) ELSE <<>>
        used == Len(ip) + (IF rest # <<>> /\ rest[1] = "." THEN 1 + Len(fp) ELSE 0)
    IN  IF s = <<>> THEN Scaled(0)
        ELSE IF used = Len(body) THEN parseFloat(s)
        ELSE NaN

\* ToNumber of a value: null is 0, undefined is NaN.
ToNumber(v) ==
    CASE v.t = "number" -> Scaled(v.n * Scale)
      [] v.t = "string" -> StringToNumber(v.s)
      [] v.t = "null" -> Scaled(0)
      [] OTHER -> NaN

\* a >= b and a <= b on numbers: false as soon as one side is NaN.
NumGE(a, b) == ~a.nan /\ ~b.nan /\ a.v >= b.v
NumLE(a, b) == ~a.nan /\ ~b.nan /\ a.v <= b.v

(***************************************************************************)
(* Strings                                                                 *)
(***************************************************************************)
UpperChars == <<"A", "B", "C", "D", "E", "F", "G", "H", "I", "J", "K", "L", "M",
                "N", "O", "P", "Q", "R", "S", "T", "U", "V", "W", "X", "Y", "Z">>
LowerChars == <<"a", "b", "c", "d", "e", "f", "g", "h", "i", "j", "k", "l", "m",
                "n", "o", "p", "q", "r", "s", "t", "u", "v", "w", "x", "y", "z">>

LowerChar(c) ==
    IF \E i \in 1..26 : UpperChars[i] = c
    THEN LowerChars[CHOOSE i \in 1..26 : UpperChars[i] = c]
    ELSE c

\* String.prototype.toLowerCase
toLowerCase(s) == [i \in 1..Len(s) |-> LowerChar(s[i])]

\* String.prototype.split(sep) for a one-character separator.
RECURSIVE split(_, _)
split(s, sep) ==
    IF \A i \in 1..Len(s) : s[i] # sep THEN <<s>>
    ELSE LET k == CHOOSE i \in 1..Len(s) : s[i] = sep /\ \A j \in 1..(i - 1) : s[j] # sep
         IN  <<SubSeq(s, 1, k - 1)>> \o split(SubSeq(s, k + 1, Len(s)), sep)

\* String(v), as a template literal or a property key renders a value.
JSString(v) ==
    CASE v.t = "string" -> v.s
      [] v.t = "number" -> IntToString(v.n)
      [] v.t = "null" -> <<"n", "u", "l", "l">>
      [] OTHER -> <<"u", "n", "d", "e", "f", "i", "n", "e", "d">>

(***************************************************************************)
(* Dates                                                                   *)
(***************************************************************************)
IsLeapYear(y) == (y % 4 = 0 /\ y % 100 # 0) \/ y % 400 = 0

DaysInMonth(y, m) ==
    IF m = 2 THEN (IF IsLeapYear(y) THEN 29 ELSE 28)
    ELSE IF m \in {4, 6, 9, 11} THEN 30 ELSE 31

RECURSIVE DaysBeforeMonth(_, _)
DaysBeforeMonth(y, m) ==
    IF m = 1 THEN 0 ELSE DaysBeforeMonth(y, m - 1) + DaysInMonth(y, m - 1)

LeapYearsBefore(y) == ((y - 1) \div 4) - ((y - 1) \div 100) + ((y - 1) \div 400)

\* MakeDay: the day number of day `d` of month `m` of year `y`; a day past
\* the end of the month runs into the next one.
DayNumber(y, m, d) ==
    365 * (y - 1970) + (LeapYearsBefore(y) - LeapYearsBefore(1970))
        + DaysBeforeMonth(y, m) + (d - 1)

\* new Date(s) for a string that is no ISO 8601 date: the engines' legacy
\* parser reads three numeric fields separated by "/" as month/day/year and
\* takes a month in 1..12 and a day in 1..31; everything else the model's
\* strings can spell (a field that is no number, fewer or more fields, a run
\* of eight digits) has a NaN time value.
DateFromString(s) ==
    LET f == split(s, "/")
    IN  IF Len(f) = 3 /\ \A i \in 1..3 : AllDigits(f[i])
        THEN LET month == DigitsToNat(f[1])
                 day == DigitsToNat(f[2])
                 year == DigitsToNat(f[3])
             IN  IF month \in 1..12 /\ day \in 1..31
                 THEN Date(DayNumber(year, month, day))
                 ELSE InvalidDate
        ELSE InvalidDate

\* new Date(value) as the table filter calls it on a row's date field.
NewDate(v) ==
    IF IsStr(v) THEN DateFromString(v.s) ELSE InvalidDate

\* The time value of a Date as Math.min and Math.max coerce it.
TimeValue(d) == IF d.t = "date" THEN Scaled(d.time) ELSE NaN

\* new Date(number): NaN and the infinities give an invalid date.
DateFromTime(x) == IF x.nan THEN InvalidDate ELSE Date(x.v)

\* Math.min(...xs) and Math.max(...xs): NaN as soon as one argument is NaN,
\* and an infinity, which new Date turns into an invalid date, for no argument.
MathMin(xs) ==
    IF xs = <<>> \/ \E i \in 1..Len(xs) : xs[i].nan THEN NaN
    ELSE Scaled(CHOOSE m \in {xs[i].v : i \in 1..Len(xs)} :
                    \A i \in 1..Len(xs) : m <= xs[i].v)

MathMax(xs) ==
    IF xs = <<>> \/ \E i \in 1..Len(xs) : xs[i].nan THEN NaN
    ELSE Scaled(CHOOSE m \in {xs[i].v : i \in 1..Len(xs)} :
                    \A i \in 1..Len(xs) : m >= xs[i].v)

(***************************************************************************)
(* utils: calculatePer1000                                                 *)
(***************************************************************************)
\* value / (popData2019 / 1000), lines 21 and 24: finite unless the
\* population is 0 or either operand is not a number.
Per1000Quotient(value, pop) ==
    IF IsNum(value) /\ (IsNum(pop) \/ pop.t = "null")
    THEN LET p == IF IsNum(pop) THEN pop.n ELSE 0
         IN  IF p = 0 THEN NonFinite
             ELSE IF p < 0 THEN Frac(-(value.n * 1000), -p)
             ELSE Frac(value.n * 1000, p)
    ELSE NonFinite

\* BelowThreshold with <= in place of <.
BelowOrAtThreshold(x) == x.num * 10000 <= x.den

\* x < 0.0001 for a finite x.
BelowThreshold(x) == x.num * 10000 < x.den

\* calculatePer1000 without the test of a null population.
calculatePer1000NoNullTest(data, forDeaths) ==
    LET value == IF forDeaths THEN data.deaths ELSE data.cases
    IN  IF value = Num(0)
        THEN [numericValue |-> Frac(0, 1), displayValue |-> <<"0">>]
        ELSE LET per1000 == Per1000Quotient(value, data.popData2019)
             IN  [numericValue |-> IF per1000.finite THEN per1000 ELSE Frac(1, 10000),
                  displayValue |->
                      IF per1000.finite
                      THEN (IF BelowThreshold(per1000)
                            THEN <<"<", "0", ".", "0", "0", "0", "1">>
                            ELSE toFixed(per1000, 4))
                      ELSE <<"0">>]

\* calculatePer1000 with 0 for the rate that is not finite.
calculatePer1000ZeroSentinel(data, forDeaths) ==
    LET value == IF forDeaths THEN data.deaths ELSE data.cases
    IN  IF value = Num(0) \/ data.popData2019 = Null
        THEN [numericValue |-> Frac(0, 1), displayValue |-> <<"0">>]
        ELSE LET per1000 == Per1000Quotient(value, data.popData2019)
             IN  [numericValue |-> IF per1000.finite THEN per1000 ELSE Frac(0, 1),
                  displayValue |->
                      IF per1000.finite
                      THEN (IF BelowThreshold(per1000)
                            THEN <<"<", "0", ".", "0", "0", "0", "1">>
                            ELSE toFixed(per1000, 4))
                      ELSE <<"0">>]

\* Lines 8-33 for a record that is an object.
calculatePer1000(data, forDeaths) ==
    LET value == IF forDeaths THEN data.deaths ELSE data.cases
    IN  IF value = Num(0) \/ data.popData2019 = Null
        THEN [numericValue |-> Frac(0, 1), displayValue |-> <<"0">>]
        ELSE LET per1000 == Per1000Quotient(value, data.popData2019)
             IN  [numericValue |-> IF per1000.finite THEN per1000 ELSE Frac(1, 10000),
                  displayValue |->
                      IF per1000.finite
                      THEN (IF BelowThreshold(per1000)
                            THEN <<"<", "0", ".", "0", "0", "0", "1">>
                            ELSE toFixed(per1000, 4))
                      ELSE <<"0">>]

(***************************************************************************)
(* Objects used as dictionaries                                            *)
(***************************************************************************)
\* An object is the sequence of its own properties, [key, value], in the
\* order Object.keys and Object.values list them: the keys that are array
\* indices first, ascending, then the other keys in the order they were
\* created (ECMA-262 OrdinaryOwnPropertyKeys).
\* The sign of the comparison of two digit sequences of one length.
RECURSIVE CompareDigits(_, _)
CompareDigits(x, y) ==
    IF x = <<>> THEN 0
    ELSE IF x[1] < y[1] THEN -1
    ELSE IF x[1] > y[1] THEN 1
    ELSE CompareDigits(Tail(x), Tail(y))

DigitValues(k) == [i \in 1..Len(k) |-> DigitValue(k[i])]

\* a < b for two canonical numeric strings: the shorter one, or the one
\* with the smaller digit where they first differ.
IndexLess(a, b) ==
    Len(a) < Len(b) \/ (Len(a) = Len(b) /\ CompareDigits(DigitValues(a), DigitValues(b)) < 0)

\* A canonical numeric string below 2^32 - 1.
IsArrayIndex(k) ==
    /\ AllDigits(k)
    /\ (Len(k) = 1 \/ k[1] # "0")
    /\ IndexLess(k, <<"4", "2", "9", "4", "9", "6", "7", "2", "9", "5">>)

HasKey(obj, k) == \E i \in 1..Len(obj) : obj[i].key = k

Get(obj, k) == obj[CHOOSE i \in 1..Len(obj) : obj[i].key = k].value

\* How many index keys of obj come before the new index key k.
IndexKeysBefore(obj, k) ==
    Cardinality({i \in 1..Len(obj) : IsArrayIndex(obj[i].key) /\ IndexLess(obj[i].key, k)})

\* obj[k] = v
Put(obj, k, v) ==
    IF HasKey(obj, k)
    THEN [i \in 1..Len(obj) |-> IF obj[i].key = k THEN [key |-> k, value |-> v] ELSE obj[i]]
    ELSE LET at == IF IsArrayIndex(k) THEN IndexKeysBefore(obj, k) ELSE Len(obj)
         IN  SubSeq(obj, 1, at) \o <<[key |-> k, value |-> v]>>
                 \o SubSeq(obj, at + 1, Len(obj))

ObjectKeys(obj) == [i \in 1..Len(obj) |-> obj[i].key]
ObjectValues(obj) == [i \in 1..Len(obj) |-> obj[i].value]

(***************************************************************************)
(* fetchData: the processing of a fetched payload                          *)
(***************************************************************************)
\* JavaScript truthiness: 0, '', null and undefined are falsy.
Truthy(v) ==
    CASE v.t = "number" -> v.n # 0
      [] v.t = "string" -> v.s # <<>>
      [] OTHER -> FALSE

\* obj[k], undefined when obj has no such property.
Lookup(obj, k) == IF HasKey(obj, k) THEN Get(obj, k) ELSE Undefined

\* a + b on the integer counts of the records.
Plus(a, b) == Num(a.n + b.n)

\* Lines 168-181: the row pushed for one record, its aggregates still 0.
NewData(record) ==
    [country |-> record.countriesAndTerritories,
     cases |-> record.cases,
     deaths |-> record.deaths,
     casesPer1000 |-> Str(toFixed(calculatePer1000(record, FALSE).numericValue, RateDigits)),
     deathsPer1000 |-> Str(toFixed(calculatePer1000(record, TRUE).numericValue, RateDigits)),
     date |-> record.dateRep,
     totalCases |-> Num(0),
     totalDeaths |-> Num(0),
     averageCases |-> Num(0),
     averageDeaths |-> Num(0),
     maxCases |-> Num(0),
     maxDeaths |-> Num(0)]

\* AccumulateTotals with the entry overwritten instead of added to.
RECURSIVE AccumulateTotalsOverwrite(_, _, _)
AccumulateTotalsOverwrite(records, field, n) ==
    IF n = 0 THEN <<>>
    ELSE Put(AccumulateTotalsOverwrite(records, field, n - 1),
             JSString(records[n].countriesAndTerritories), records[n][field])

\* Lines 154-166 over the first n records: the dictionary country -> sum of
\* `field`, restarted from the record's own count whenever the entry is
\* missing or falsy.
RECURSIVE AccumulateTotals(_, _, _)
AccumulateTotals(records, field, n) ==
    IF n = 0 THEN <<>>
    ELSE LET totals == AccumulateTotals(records, field, n - 1)
             country == JSString(records[n].countriesAndTerritories)
             count == records[n][field]
         IN  IF Truthy(Lookup(totals, country))
             THEN Put(totals, country, Plus(Get(totals, country), count))
             ELSE Put(totals, country, count)

\* PushRows without the records that report no case.
PushRowsWithCases(rows, records) ==
    rows \o SelectSeq([i \in 1..Len(records) |-> NewData(records[i])],
                      LAMBDA row : row.cases # Num(0))

\* Lines 135-186: the rows pushed onto allData, one per record.
PushRows(rows, records) == rows \o [i \in 1..Len(records) |-> NewData(records[i])]

\* Lines 195-198: every row takes its country's entries of the dictionaries.
FillTotals(rows, totalCases, totalDeaths) ==
    [i \in 1..Len(rows) |->
        [rows[i] EXCEPT !.totalCases = Lookup(totalCases, JSString(rows[i].country)),
                        !.totalDeaths = Lookup(totalDeaths, JSString(rows[i].country))]]

\* AggregateByDate keeping the first record of a date instead of adding.
RECURSIVE AggregateByDateFirst(_, _)
AggregateByDateFirst(data, n) ==
    IF n = 0 THEN <<>>
    ELSE LET aggregatedData == AggregateByDateFirst(data, n - 1)
             date == JSString(data[n].dateRep)
         IN  IF HasKey(aggregatedData, date) THEN aggregatedData
             ELSE Put(aggregatedData, date,
                      [date |-> data[n].dateRep,
                       totalCases |-> data[n].cases,
                       totalDeaths |-> data[n].deaths])

\* Lines 429-454 over the first n records.
RECURSIVE AggregateByDate(_, _)
AggregateByDate(data, n) ==
    IF n = 0 THEN <<>>
    ELSE LET aggregatedData == AggregateByDate(data, n - 1)
             record == data[n]
             date == JSString(record.dateRep)
         IN  IF HasKey(aggregatedData, date)
             THEN LET old == Get(aggregatedData, date)
                  IN  Put(aggregatedData, date,
                          [old EXCEPT !.totalCases = Plus(old.totalCases, record.cases),
                                      !.totalDeaths = Plus(old.totalDeaths, record.deaths)])
             ELSE Put(aggregatedData, date,
                      [date |-> record.dateRep,
                       totalCases |-> record.cases,
                       totalDeaths |-> record.deaths])

aggregateDataByDate(data) == ObjectValues(AggregateByDate(data, Len(data)))

\* Lines 202-203: the Date of one record, its day/month/year fields put back
\* together as month/day/year; a field split did not yield prints "undefined".
RecordDate(record) ==
    LET f == split(record.dateRep.s, "/")
        part(i) == IF i <= Len(f) THEN f[i] ELSE JSString(Undefined)
    IN  DateFromString(part(2) \o <<"/">> \o part(1) \o <<"/">> \o part(3))

\* Line 202 throws a TypeError on a record whose dateRep is no string.
SplitThrows(records) == \E i \in 1..Len(records) : ~IsStr(records[i].dateRep)

RecordTimes(records) == [i \in 1..Len(records) |-> TimeValue(RecordDate(records[i]))]

\* Lines 220-237 over the first n records: date string -> the lists of the
\* cases and of the deaths reported on it.
RECURSIVE DailyData(_, _)
DailyData(records, n) ==
    IF n = 0 THEN <<>>
    ELSE LET dailyData == DailyData(records, n - 1)
             date == JSString(records[n].dateRep)
         IN  IF HasKey(dailyData, date)
             THEN LET old == Get(dailyData, date)
                  IN  Put(dailyData, date,
                          [dailyCases |-> Append(old.dailyCases, records[n].cases),
                           dailyDeaths |-> Append(old.dailyDeaths, records[n].deaths)])
             ELSE Put(dailyData, date,
                      [dailyCases |-> <<records[n].cases>>,
                       dailyDeaths |-> <<records[n].deaths>>])

\* array.reduce((sum, x) => sum + x, 0)
RECURSIVE SumOf(_)
SumOf(xs) == IF xs = <<>> THEN 0 ELSE SumOf(SubSeq(xs, 1, Len(xs) - 1)) + xs[Len(xs)].n

\* Math.max(...xs) of a non-empty list of integers.
MaxOf(xs) == CHOOSE m \in {xs[i].n : i \in 1..Len(xs)} : \A i \in 1..Len(xs) : m >= xs[i].n

\* BackFillDaily without the test data.date === date: every row takes the
\* aggregates of every key in turn.
RECURSIVE BackFillDailyEveryRow(_, _, _)
BackFillDailyEveryRow(rows, dailyData, n) ==
    IF n = 0 THEN rows
    ELSE LET done == BackFillDailyEveryRow(rows, dailyData, n - 1)
             casesArray == dailyData[n].value.dailyCases
             deathsArray == dailyData[n].value.dailyDeaths
         IN  [i \in 1..Len(done) |->
                 [done[i] EXCEPT
                     !.averageCases = Str(toFixed(Frac(SumOf(casesArray), Len(casesArray)),
                                                  AggregateDigits)),
                     !.averageDeaths = Str(toFixed(Frac(SumOf(deathsArray), Len(deathsArray)),
                                                   AggregateDigits)),
                     !.maxCases = Str(toFixed(Frac(MaxOf(casesArray), 1), AggregateDigits)),
                     !.maxDeaths = Str(toFixed(Frac(MaxOf(deathsArray), 1), AggregateDigits))]]

\* Lines 241-262 for the first n keys of dailyData: the rows whose date is
\* strictly equal to the key take that key's mean and maximum.
RECURSIVE BackFillDaily(_, _, _)
BackFillDaily(rows, dailyData, n) ==
    IF n = 0 THEN rows
    ELSE LET done == BackFillDaily(rows, dailyData, n - 1)
             date == ObjectKeys(dailyData)[n]
             casesArray == dailyData[n].value.dailyCases
             deathsArray == dailyData[n].value.dailyDeaths
             averageCases == toFixed(Frac(SumOf(casesArray), Len(casesArray)), AggregateDigits)
             averageDeaths == toFixed(Frac(SumOf(deathsArray), Len(deathsArray)), AggregateDigits)
             maxCases == toFixed(Frac(MaxOf(casesArray), 1), AggregateDigits)
             maxDeaths == toFixed(Frac(MaxOf(deathsArray), 1), AggregateDigits)
         IN  [i \in 1..Len(done) |->
                 IF done[i].date = Str(date)
                 THEN [done[i] EXCEPT !.averageCases = Str(averageCases),
                                      !.averageDeaths = Str(averageDeaths),
                                      !.maxCases = Str(maxCases),
                                      !.maxDeaths = Str(maxDeaths)]
                 ELSE done[i]]

\* The rows as lines 135-198 leave them.
RowsWithTotals(rows, records) ==
    FillTotals(PushRows(rows, records),
               AccumulateTotals(records, "cases", Len(records)),
               AccumulateTotals(records, "deaths", Len(records)))

\* FetchRejected followed by a second GET.
FetchRejectedRetries ==
    /\ pc = "fetching"
    /\ response.status = "error"
    /\ response' = [status |-> "ok", records |-> <<>>]
    /\ UNCHANGED <<call, outcome>>
    /\ UNCHANGED <<pc, allData, SumCovidData, minDate, maxDate, startDate,
                   endDate, selectedCountry, selectedColumn, minValue, maxValue,
                   itemsPerPage, currentPage, sortedColumn, sortDirection, selectedTab>>

\* The GET fails: axios rejects, the catch at line 266 logs, nothing is set.
FetchRejected ==
    /\ pc = "fetching"
    /\ response.status = "error"
    /\ pc' = "failed"
    /\ UNCHANGED <<call, outcome>>
    /\ UNCHANGED <<response, allData, SumCovidData, minDate, maxDate, startDate,
                   endDate, selectedCountry, selectedColumn, minValue, maxValue,
                   itemsPerPage, currentPage, sortedColumn, sortDirection, selectedTab>>

\* FetchProcessed leaving alone a start or end date already picked.
FetchProcessedKeepingDates ==
    /\ pc = "fetching"
    /\ response.status = "ok"
    /\ ~SplitThrows(response.records)
    /\ LET records == response.records
           times == RecordTimes(records)
           dailyData == DailyData(records, Len(records))
       IN  /\ allData' = BackFillDaily(RowsWithTotals(allData, records),
                                       dailyData, Len(dailyData))
           /\ SumCovidData' = aggregateDataByDate(records)
           /\ minDate' = DateFromTime(MathMin(times))
           /\ maxDate' = DateFromTime(MathMax(times))
           /\ startDate' = (IF startDate = Null THEN DateFromTime(MathMin(times))
                            ELSE startDate)
           /\ endDate' = (IF endDate = Null THEN DateFromTime(MathMax(times)) ELSE endDate)
    /\ pc' = "loaded"
    /\ UNCHANGED <<call, outcome>>
    /\ UNCHANGED <<response, selectedCountry, selectedColumn, minValue, maxValue,
                   itemsPerPage, currentPage, sortedColumn, sortDirection, selectedTab>>

\* The GET succeeds and lines 124-265 run to the end.
FetchProcessed ==
    /\ pc = "fetching"
    /\ response.status = "ok"
    /\ ~SplitThrows(response.records)
    /\ LET records == response.records
           times == RecordTimes(records)
           dailyData == DailyData(records, Len(records))
       IN  /\ allData' = BackFillDaily(RowsWithTotals(allData, records),
                                       dailyData, Len(dailyData))
           /\ SumCovidData' = aggregateDataByDate(records)
           /\ minDate' = DateFromTime(MathMin(times))
           /\ maxDate' = DateFromTime(MathMax(times))
           /\ startDate' = DateFromTime(MathMin(times))
           /\ endDate' = DateFromTime(MathMax(times))
    /\ pc' = "loaded"
    /\ UNCHANGED <<call, outcome>>
    /\ UNCHANGED <<response, selectedCountry, selectedColumn, minValue, maxValue,
                   itemsPerPage, currentPage, sortedColumn, sortDirection, selectedTab>>

\* The GET succeeds and line 202 throws on a record without a dateRep string:
\* lines 135-198 have run, the catch at line 266 logs, the rest is skipped.
FetchThrows ==
    /\ pc = "fetching"
    /\ response.status = "ok"
    /\ SplitThrows(response.records)
    /\ allData' = RowsWithTotals(allData, response.records)
    /\ SumCovidData' = aggregateDataByDate(response.records)
    /\ pc' = "failed"
    /\ UNCHANGED <<call, outcome>>
    /\ UNCHANGED <<response, minDate, maxDate, startDate, endDate, selectedCountry,
                   selectedColumn, minValue, maxValue, itemsPerPage, currentPage,
                   sortedColumn, sortDirection, selectedTab>>

(***************************************************************************)
(* The table view: filter, sort, paginate                                  *)
(***************************************************************************)
\* getColumnOptions: the values of the column options, in order.
Columns == <<"cases", "deaths", "totalCases", "totalDeaths", "casesPer1000",
             "deathsPer1000", "averageCases", "averageDeaths", "maxCases", "maxDeaths">>

getColumnOptions == [i \in 1..Len(Columns) |-> [value |-> Columns[i], label |-> Columns[i]]]

\* entry[name], undefined when the row has no such property.
Field(entry, name) == IF name \in DOMAIN entry THEN entry[name] ELSE Undefined

\* countryMatches without the trim of the row's country.
countryMatchesUntrimmed(entry) ==
    selectedCountry = <<>> \/ toLowerCase(entry.country.s) = toLowerCase(selectedCountry)

\* Lines 316-320.
countryMatches(entry) ==
    LET cleanedCountry == toLowerCase(trim(entry.country.s))
        selectedCountryLower == toLowerCase(selectedCountry)
    IN  selectedCountry = <<>> \/ cleanedCountry = selectedCountryLower

\* isDateValid without !isNaN(entryDate.getTime()); a comparison with an
\* invalid date is false.
isDateValidWithoutParseTest(entry) ==
    LET entryDate == NewDate(entry.date)
    IN  /\ (startDate = Null \/ startDate = InvalidDate
             \/ (entryDate # InvalidDate /\ entryDate.time >= startDate.time))
        /\ (endDate = Null \/ endDate = InvalidDate
             \/ (entryDate # InvalidDate /\ entryDate.time <= endDate.time))

\* Lines 323-326.
isDateValid(entry) ==
    LET entryDate == NewDate(entry.date)
    IN  /\ entryDate # InvalidDate
        /\ (startDate = Null \/ startDate = InvalidDate \/ entryDate.time >= startDate.time)
        /\ (endDate = Null \/ endDate = InvalidDate \/ entryDate.time <= endDate.time)

\* isValueValid with > and < in place of >= and <=.
isValueValidStrict(entry) ==
    IF selectedColumn # Null /\ selectedColumn.value # ""
    THEN LET value == Field(entry, selectedColumn.value)
         IN  /\ value # Undefined /\ value # Null
             /\ (minValue = <<>> \/ ~NumLE(ToNumber(value), parseFloat(minValue)))
             /\ (maxValue = <<>> \/ ~NumGE(ToNumber(value), parseFloat(maxValue)))
    ELSE TRUE

\* Lines 329-333.
isValueValid(entry) ==
    IF selectedColumn # Null /\ selectedColumn.value # ""
    THEN LET value == Field(entry, selectedColumn.value)
         IN  /\ value # Undefined /\ value # Null
             /\ (minValue = <<>> \/ NumGE(ToNumber(value), parseFloat(minValue)))
             /\ (maxValue = <<>> \/ NumLE(ToNumber(value), parseFloat(maxValue)))
    ELSE TRUE

\* Line 336.
FilterPasses(entry) == countryMatches(entry) /\ isDateValid(entry) /\ isValueValid(entry)

\* Line 314.
filteredData == SelectSeq(allData, FilterPasses)

\* totalPages with the quotient rounded down.
totalPagesFloor == Len(filteredData) \div itemsPerPage

\* Line 342: Math.ceil(filteredData.length / itemsPerPage), itemsPerPage >= 1.
totalPages == (Len(filteredData) + itemsPerPage - 1) \div itemsPerPage

(***************************************************************************)
(* utils: sortData                                                         *)
(***************************************************************************)
\* The collation weight of a character under the root collation that
\* localeCompare uses: white space, then punctuation and symbols, then
\* digits, then letters; the letter decides before its case does.
CollationOrder == <<" ", "\t", "\n", "\r", "-", ".", "/", "<">>

CharWeight(c) ==
    IF \E i \in 1..Len(CollationOrder) : CollationOrder[i] = c
    THEN CHOOSE i \in 1..Len(CollationOrder) : CollationOrder[i] = c
    ELSE IF IsDigit(c) THEN 20 + DigitValue(c)
    ELSE 40 + (CHOOSE i \in 1..26 : LowerChars[i] = LowerChar(c))

\* 0 for a lower-case or caseless character, 1 for an upper-case one.
CaseWeight(c) == IF \E i \in 1..26 : UpperChars[i] = c THEN 1 ELSE 0

\* The sign of the lexicographic comparison of two weight sequences.
RECURSIVE CompareWeights(_, _)
CompareWeights(x, y) ==
    IF x = <<>> /\ y = <<>> THEN 0
    ELSE IF x = <<>> THEN -1
    ELSE IF y = <<>> THEN 1
    ELSE IF x[1] < y[1] THEN -1
    ELSE IF x[1] > y[1] THEN 1
    ELSE CompareWeights(Tail(x), Tail(y))

\* String.prototype.localeCompare
localeCompare(x, y) ==
    LET primary == CompareWeights([i \in 1..Len(x) |-> CharWeight(x[i])],
                                  [i \in 1..Len(y) |-> CharWeight(y[i])])
    IN  IF primary # 0 THEN primary
        ELSE CompareWeights([i \in 1..Len(x) |-> CaseWeight(x[i])],
                            [i \in 1..Len(y) |-> CaseWeight(y[i])])

NumericColumns == {"totalCases", "totalDeaths", "casesPer1000", "deathsPer1000",
                   "averageCases", "averageDeaths", "maxCases", "maxDeaths"}

\* A number the comparator has computed, on the common scale.
Computed(x) == [t |-> "computed", x |-> x]

\* SortValue taking the text of the value for the numeric columns too.
SortValueAsText(row, column) ==
    LET raw == Field(row, column)
    IN  IF column = "country"
        THEN (IF Truthy(raw) THEN raw ELSE Str(<<>>))
        ELSE Str(IF Truthy(raw) THEN JSString(raw) ELSE <<>>)

\* SortValue taking 0 for every value of a numeric column that is not a
\* number, whatever parseFloat reads in it.
SortValueZeroForNaN(row, column) ==
    LET raw == Field(row, column)
    IN  IF column = "country"
        THEN (IF Truthy(raw) THEN raw ELSE Str(<<>>))
        ELSE IF column \in NumericColumns
        THEN (IF ToNumber(raw).nan THEN Computed(Scaled(0)) ELSE Computed(ToNumber(raw)))
        ELSE Str(IF Truthy(raw) THEN JSString(raw) ELSE <<>>)

\* Lines 93-115: the value the comparator takes from a row.
SortValue(row, column) ==
    LET raw == Field(row, column)
    IN  IF column = "country"
        THEN (IF Truthy(raw) THEN raw ELSE Str(<<>>))
        ELSE IF column \in NumericColumns
        THEN (IF ToNumber(raw).nan
              THEN (IF parseFloat(JSString(raw)).nan \/ parseFloat(JSString(raw)).v = 0
                    THEN Computed(Scaled(0))
                    ELSE Computed(parseFloat(JSString(raw))))
              ELSE Computed(ToNumber(raw)))
        ELSE Str(IF Truthy(raw) THEN JSString(raw) ELSE <<>>)

\* The number isNaN and the subtraction at line 118 see in a sort value.
SortNumber(value) == IF value.t = "computed" THEN value.x ELSE ToNumber(value)

\* Comparator comparing two strings as texts even when both spell numbers.
ComparatorTextual(a, b, column, direction) ==
    LET valueA == SortValue(a, column)
        valueB == SortValue(b, column)
        comparison == IF valueA.t = "string" /\ valueB.t = "string"
                      THEN localeCompare(valueA.s, valueB.s)
                      ELSE SortNumber(valueA).v - SortNumber(valueB).v
    IN  IF direction = "asc" THEN comparison ELSE -comparison

\* Comparator without the negation for 'desc'.
ComparatorIgnoringDirection(a, b, column, direction) ==
    LET valueA == SortValue(a, column)
        valueB == SortValue(b, column)
    IN  IF SortNumber(valueA).nan \/ SortNumber(valueB).nan
        THEN localeCompare(valueA.s, valueB.s)
        ELSE SortNumber(valueA).v - SortNumber(valueB).v

\* Lines 118-121: negative when a goes first, positive when b does.
Comparator(a, b, column, direction) ==
    LET valueA == SortValue(a, column)
        valueB == SortValue(b, column)
        comparison == IF SortNumber(valueA).nan \/ SortNumber(valueB).nan
                      THEN localeCompare(valueA.s, valueB.s)
                      ELSE SortNumber(valueA).v - SortNumber(valueB).v
    IN  IF direction = "asc" THEN comparison ELSE -comparison

\* The largest of a set of positions, 0 for none.
LastOf(positions) ==
    IF positions = {} THEN 0 ELSE CHOOSE i \in positions : \A j \in positions : j <= i

\* `sorted` with the row put in after position `at`.
InsertAfter(sorted, row, at) ==
    SubSeq(sorted, 1, at) \o <<row>> \o SubSeq(sorted, at + 1, Len(sorted))

\* InsertSorted putting the row before the rows it compares equal to.
InsertSortedBeforeTies(sorted, row, column, direction) ==
    InsertAfter(sorted, row,
        LastOf({i \in 1..Len(sorted) : Comparator(sorted[i], row, column, direction) < 0}))

\* Array.prototype.sort is stable: row goes after the last row of `sorted`
\* that does not compare greater than it.
InsertSorted(sorted, row, column, direction) ==
    InsertAfter(sorted, row,
        LastOf({i \in 1..Len(sorted) : Comparator(sorted[i], row, column, direction) <= 0}))

RECURSIVE SortPrefix(_, _, _, _)
SortPrefix(data, n, column, direction) ==
    IF n = 0 THEN <<>>
    ELSE InsertSorted(SortPrefix(data, n - 1, column, direction), data[n], column, direction)

\* Lines 84-126: a sorted copy of data.
sortData(data, column, direction) == SortPrefix(data, Len(data), column, direction)

\* Line 458; a sortedColumn of null reads the property "null" of the rows.
sortedFilteredData ==
    sortData(filteredData, IF sortedColumn = Null THEN "null" ELSE sortedColumn.name,
             sortDirection)

(***************************************************************************)
(* Pagination                                                              *)
(***************************************************************************)
Min(a, b) == IF a < b THEN a ELSE b
Max(a, b) == IF a > b THEN a ELSE b

\* Array.prototype.slice(from, to) for from, to >= 0 (0-based, to excluded).
Slice(array, from, to) == SubSeq(array, Min(from, Len(array)) + 1, Min(to, Len(array)))

\* Line 690: the rows of page `page`.
PageRows(page) ==
    Slice(sortedFilteredData, (page - 1) * itemsPerPage, page * itemsPerPage)

\* Line 70.
maxPageButtons == 5

\* Line 350.
halfButtons == maxPageButtons \div 2

\* PageWindow without the two adjustments to the valid page numbers.
PageWindowUnclamped(page, pages) ==
    [startPage |-> page - halfButtons, endPage |-> page + halfButtons]

\* Lines 353-364: the first and the last numbered button.
PageWindow(page, pages) ==
    LET start0 == page - halfButtons
        end0 == page + halfButtons
        start1 == IF start0 <= 0 THEN 1 ELSE start0
        end1 == IF start0 <= 0 THEN Min(maxPageButtons, pages) ELSE end0
    IN  IF end1 > pages
        THEN [startPage |-> Max(1, pages - maxPageButtons + 1), endPage |-> pages]
        ELSE [startPage |-> start1, endPage |-> end1]

Button(label, target, buttonType) ==
    [label |-> label, target |-> target, buttonType |-> buttonType]

\* Lines 386-395.
NumberButtons(w, page) ==
    [k \in 1..(IF w.endPage >= w.startPage THEN w.endPage - w.startPage + 1 ELSE 0) |->
        Button(IntToString(w.startPage + k - 1), w.startPage + k - 1,
               IF w.startPage + k - 1 = page THEN "current" ELSE "normal")]

\* FirstButtons with the ellipsis whenever "<<" is shown.
FirstButtonsAlwaysEllipsis(w) ==
    IF w.startPage > 1
    THEN <<Button(<<"<", "<">>, 1, "double-arrow"),
           Button(<<".", ".", ".">>, w.startPage - 1, "ellipsis")>>
    ELSE <<>>

\* Lines 366-383: "<<" and the ellipsis before the numbered buttons.
FirstButtons(w) ==
    IF w.startPage > 1
    THEN <<Button(<<"<", "<">>, 1, "double-arrow")>>
             \o (IF w.startPage > 2
                 THEN <<Button(<<".", ".", ".">>, w.startPage - 1, "ellipsis")>>
                 ELSE <<>>)
    ELSE <<>>

\* Lines 397-417: the ellipsis and ">>" after the numbered buttons.
LastButtons(w, pages) ==
    IF w.endPage < pages
    THEN (IF w.endPage < pages - 1
          THEN <<Button(<<".", ".", ".">>, w.endPage + 1, "ellipsis")>>
          ELSE <<>>)
             \o <<Button(<<">", ">">>, pages, "double-arrow")>>
    ELSE <<>>

\* Lines 347-421: the buttons, left to right, each with the page its click
\* passes to paginate.
PageButtons(page, pages) ==
    LET w == PageWindow(page, pages)
    IN  FirstButtons(w) \o NumberButtons(w, page) \o LastButtons(w, pages)

renderPageNumbers == PageButtons(currentPage, totalPages)

(***************************************************************************)
(* Event handlers                                                          *)
(***************************************************************************)
\* Lines 295-306: the country options, one per distinct country, first seen
\* first (a Set keeps insertion order).
RECURSIVE UniqueCountries(_)
UniqueCountries(n) ==
    IF n = 0 THEN <<>>
    ELSE LET seen == UniqueCountries(n - 1)
             country == allData[n].country
         IN  IF \E i \in 1..Len(seen) : seen[i].value = country
             THEN seen
             ELSE Append(seen, [value |-> country, label |-> country])

getUniqueCountries == UniqueCountries(Len(allData))

\* A date does not fall before `low` nor after `high`, the minDate and
\* maxDate a DatePicker is given; null or an invalid date bounds nothing.
WithinPicker(date, low, high) ==
    IF date = Null THEN TRUE
    ELSE /\ (IF low \in {Null, InvalidDate} THEN TRUE ELSE date.time >= low.time)
         /\ (IF high \in {Null, InvalidDate} THEN TRUE ELSE date.time <= high.time)

\* Lines 513-527: the start date picker, onChange with a day or with null.
SetStartDate(date) ==
    /\ WithinPicker(date, minDate, endDate)
    /\ startDate' = date
    /\ currentPage' = 1
    /\ UNCHANGED <<call, outcome>>
    /\ UNCHANGED <<pc, response, allData, SumCovidData, minDate, maxDate, endDate,
                   selectedCountry, selectedColumn, minValue, maxValue, itemsPerPage,
                   sortedColumn, sortDirection, selectedTab>>

\* Lines 532-546: the end date picker.
SetEndDate(date) ==
    /\ WithinPicker(date, startDate, maxDate)
    /\ endDate' = date
    /\ currentPage' = 1
    /\ UNCHANGED <<call, outcome>>
    /\ UNCHANGED <<pc, response, allData, SumCovidData, minDate, maxDate, startDate,
                   selectedCountry, selectedColumn, minValue, maxValue, itemsPerPage,
                   sortedColumn, sortDirection, selectedTab>>

\* Lines 553-565: the tab buttons.
SetSelectedTab(tab) ==
    /\ selectedTab' = tab
    /\ UNCHANGED <<call, outcome>>
    /\ UNCHANGED <<pc, response, allData, SumCovidData, minDate, maxDate, startDate,
                   endDate, selectedCountry, selectedColumn, minValue, maxValue,
                   itemsPerPage, currentPage, sortedColumn, sortDirection>>

\* Lines 578-585: the country select, onChange with one of its options.
SelectCountry(k) ==
    /\ selectedTab = "Table"
    /\ k \in 1..Len(getUniqueCountries)
    /\ selectedCountry' = getUniqueCountries[k].value.s
    /\ currentPage' = 1
    /\ UNCHANGED <<call, outcome>>
    /\ UNCHANGED <<pc, response, allData, SumCovidData, minDate, maxDate, startDate,
                   endDate, selectedColumn, minValue, maxValue, itemsPerPage,
                   sortedColumn, sortDirection, selectedTab>>

\* Lines 609-616: the column select, onChange with one of columnOptions.
SelectColumn(k) ==
    /\ selectedTab = "Table"
    /\ k \in 1..Len(getColumnOptions)
    /\ selectedColumn' = getColumnOptions[k]
    /\ currentPage' = 1
    /\ UNCHANGED <<call, outcome>>
    /\ UNCHANGED <<pc, response, allData, SumCovidData, minDate, maxDate, startDate,
                   endDate, selectedCountry, minValue, maxValue, itemsPerPage,
                   sortedColumn, sortDirection, selectedTab>>

\* Lines 491-495 and 643-646: the text of the number input, '' when cleared.
handleMinValueChange(text) ==
    /\ selectedTab = "Table"
    /\ minValue' = text
    /\ currentPage' = 1
    /\ UNCHANGED <<call, outcome>>
    /\ UNCHANGED <<pc, response, allData, SumCovidData, minDate, maxDate, startDate,
                   endDate, selectedCountry, selectedColumn, maxValue, itemsPerPage,
                   sortedColumn, sortDirection, selectedTab>>

\* Lines 498-502 and 655-658.
handleMaxValueChange(text) ==
    /\ selectedTab = "Table"
    /\ maxValue' = text
    /\ currentPage' = 1
    /\ UNCHANGED <<call, outcome>>
    /\ UNCHANGED <<pc, response, allData, SumCovidData, minDate, maxDate, startDate,
                   endDate, selectedCountry, selectedColumn, minValue, itemsPerPage,
                   sortedColumn, sortDirection, selectedTab>>

\* resetFilters without setSelectedCountry('').
resetFiltersKeepingCountry ==
    /\ selectedTab = "Table"
    /\ selectedColumn' = Null
    /\ minValue' = <<>>
    /\ maxValue' = <<>>
    /\ itemsPerPage' = 10
    /\ currentPage' = 1
    /\ UNCHANGED <<call, outcome>>
    /\ UNCHANGED <<pc, response, allData, SumCovidData, minDate, maxDate, startDate,
                   endDate, selectedCountry, sortedColumn, sortDirection, selectedTab>>

\* Lines 278-291.
resetFilters ==
    /\ selectedTab = "Table"
    /\ selectedCountry' = <<>>
    /\ selectedColumn' = Null
    /\ minValue' = <<>>
    /\ maxValue' = <<>>
    /\ itemsPerPage' = 10
    /\ currentPage' = 1
    /\ UNCHANGED <<call, outcome>>
    /\ UNCHANGED <<pc, response, allData, SumCovidData, minDate, maxDate, startDate,
                   endDate, sortedColumn, sortDirection, selectedTab>>

\* handleItemsPerPageChange without setCurrentPage(1).
handleItemsPerPageChangeKeepingPage(text) ==
    /\ selectedTab = "Table"
    /\ AllDigits(text) /\ DigitsToNat(text) >= 1
    /\ itemsPerPage' = DigitsToNat(text)
    /\ UNCHANGED <<call, outcome>>
    /\ UNCHANGED <<pc, response, allData, SumCovidData, minDate, maxDate, startDate,
                   endDate, selectedCountry, selectedColumn, minValue, maxValue,
                   currentPage, sortedColumn, sortDirection, selectedTab>>

\* Lines 475-487 and 697-704: the input takes whole numbers from 1 (min="1");
\* parseInt(text, 10) of such a text is the number its digits spell.
handleItemsPerPageChange(text) ==
    /\ selectedTab = "Table"
    /\ AllDigits(text) /\ DigitsToNat(text) >= 1
    /\ itemsPerPage' = DigitsToNat(text)
    /\ currentPage' = 1
    /\ UNCHANGED <<call, outcome>>
    /\ UNCHANGED <<pc, response, allData, SumCovidData, minDate, maxDate, startDate,
                   endDate, selectedCountry, selectedColumn, minValue, maxValue,
                   sortedColumn, sortDirection, selectedTab>>

\* Line 425, from the click of the k-th button renderPageNumbers shows.
paginate(k) ==
    /\ selectedTab = "Table"
    /\ k \in 1..Len(renderPageNumbers)
    /\ currentPage' = renderPageNumbers[k].target
    /\ UNCHANGED <<call, outcome>>
    /\ UNCHANGED <<pc, response, allData, SumCovidData, minDate, maxDate, startDate,
                   endDate, selectedCountry, selectedColumn, minValue, maxValue,
                   itemsPerPage, sortedColumn, sortDirection, selectedTab>>

\* Lines 674-684: the columns whose header sorts.
SortableColumns == <<"country">> \o Columns

\* handleColumnSort without setSortDirection('asc') for a new column.
handleColumnSortKeepingDirection(column) ==
    /\ selectedTab = "Table"
    /\ IF sortedColumn = Name(column)
       THEN /\ sortDirection' = (IF sortDirection = "asc" THEN "desc" ELSE "asc")
            /\ UNCHANGED sortedColumn
       ELSE /\ sortedColumn' = Name(column)
            /\ UNCHANGED sortDirection
    /\ UNCHANGED <<call, outcome>>
    /\ UNCHANGED <<pc, response, allData, SumCovidData, minDate, maxDate, startDate,
                   endDate, selectedCountry, selectedColumn, minValue, maxValue,
                   itemsPerPage, currentPage, selectedTab>>

\* handleColumnSort sorting the row list itself, not a copy of it.
handleColumnSortInPlace(column) ==
    /\ selectedTab = "Table"
    /\ IF sortedColumn = Name(column)
       THEN /\ sortDirection' = (IF sortDirection = "asc" THEN "desc" ELSE "asc")
            /\ UNCHANGED sortedColumn
       ELSE /\ sortedColumn' = Name(column)
            /\ sortDirection' = "asc"
    /\ allData' = sortData(allData, column,
                           IF sortedColumn = Name(column) /\ sortDirection = "asc"
                           THEN "desc" ELSE "asc")
    /\ UNCHANGED <<call, outcome>>
    /\ UNCHANGED <<pc, response, SumCovidData, minDate, maxDate, startDate,
                   endDate, selectedCountry, selectedColumn, minValue, maxValue,
                   itemsPerPage, currentPage, selectedTab>>

\* Lines 462-471.
handleColumnSort(column) ==
    /\ selectedTab = "Table"
    /\ IF sortedColumn = Name(column)
       THEN /\ sortDirection' = (IF sortDirection = "asc" THEN "desc" ELSE "asc")
            /\ UNCHANGED sortedColumn
       ELSE /\ sortedColumn' = Name(column)
            /\ sortDirection' = "asc"
    /\ UNCHANGED <<call, outcome>>
    /\ UNCHANGED <<pc, response, allData, SumCovidData, minDate, maxDate, startDate,
                   endDate, selectedCountry, selectedColumn, minValue, maxValue,
                   itemsPerPage, currentPage, selectedTab>>

(***************************************************************************)
(* Payloads and inputs                                                     *)
(***************************************************************************)
Record(country, dateRep, cases, deaths, popData2019) ==
    [countriesAndTerritories |-> Str(country), dateRep |-> dateRep,
     cases |-> Num(cases), deaths |-> Num(deaths), popData2019 |-> popData2019]

\* Date strings: 25 March, 5 March (twice, one without the leading zeros),
\* 3 May 2020, and two runs of digits without separators.
D25Mar == <<"2", "5", "/", "0", "3", "/", "2", "0", "2", "0">>
D05Mar == <<"0", "5", "/", "0", "3", "/", "2", "0", "2", "0">>
D5Mar == <<"5", "/", "3", "/", "2", "0", "2", "0">>
D03May == <<"0", "3", "/", "0", "5", "/", "2", "0", "2", "0">>
DCompact == <<"2", "0", "2", "0", "0", "3", "2", "5">>
DCompactEarly == <<"2", "0", "2", "0", "0", "3", "0", "5">>

\* The records payloads are made of: two spellings of one country that
\* differ in case and white space, a negative correction, a null and a zero
\* population, a record without a dateRep.
SampleRecords ==
    <<Record(<<"A">>, Str(D25Mar), 1, 0, Num(1000)),
      Record(<<"A">>, Str(D05Mar), 2, 1, Num(2000000)),
      Record(<<" ", "a">>, Str(D05Mar), -1, 0, Null),
      Record(<<"B">>, Str(D5Mar), 10, 2, Num(0)),
      Record(<<"B">>, Str(DCompact), 0, 1, Num(1000)),
      Record(<<"A">>, Str(D03May), 3, 0, Num(20000000)),
      Record(<<"B">>, Undefined, 1, 1, Num(1000)),
      Record(<<"A">>, Str(DCompactEarly), 1, 0, Num(1000))>>

\* The sequences of at most n of the records `sample`.
RECURSIVE SequencesUpTo(_, _)
SequencesUpTo(sample, n) ==
    IF n = 0 THEN {<<>>}
    ELSE LET shorter == SequencesUpTo(sample, n - 1)
         IN  shorter \cup {Append(p, sample[i]) : p \in shorter, i \in 1..Len(sample)}

\* No function of utils.js is being called on its own.
NoCall == [fn |-> "none"]
Pending == [kind |-> "pending"]
Returned(value) == [kind |-> "returned", value |-> value]
Threw(error) == [kind |-> "threw", error |-> error]

Ok(records) == [status |-> "ok", records |-> records]
Rejected == [status |-> "error", records |-> <<>>]

\* The state after the first render, the GET in flight with `answer`.
AppStart(answer) ==
    /\ pc = "fetching"
    /\ response = answer
    /\ allData = <<>>
    /\ SumCovidData = <<>>
    /\ minDate = Null
    /\ maxDate = Null
    /\ startDate = Null
    /\ endDate = Null
    /\ selectedCountry = <<>>
    /\ selectedColumn = Null
    /\ minValue = <<>>
    /\ maxValue = <<>>
    /\ itemsPerPage = 10
    /\ currentPage = 1
    /\ sortedColumn = Null
    /\ sortDirection = "asc"
    /\ selectedTab = "Table"

InitWith(answer) == AppStart(answer) /\ call = NoCall /\ outcome = Pending

\* A caller of utils.js about to make the call c, the application aside.
InitCalling(c) == AppStart(Rejected) /\ call = c /\ outcome = Pending

(***************************************************************************)
(* The load alone: every payload of at most MaxRecords records             *)
(***************************************************************************)
MaxRecords == 4

InitLoad ==
    \E answer \in {Rejected} \cup {Ok(p) : p \in SequencesUpTo(SampleRecords, MaxRecords)} :
        InitWith(answer)

NextLoad == FetchRejected \/ FetchProcessed \/ FetchThrows

SpecLoad == InitLoad /\ [][NextLoad]_vars

(***************************************************************************)
(* Properties of the load                                                  *)
(***************************************************************************)
\* The sum of `field` over the records at the indices idx.
RECURSIVE SumAt(_, _, _)
SumAt(records, idx, field) ==
    IF idx = {} THEN 0
    ELSE LET j == CHOOSE j \in idx : TRUE
         IN  records[j][field].n + SumAt(records, idx \ {j}, field)

\* The largest `field` among the records at the indices idx.
MaxAt(records, idx, field) ==
    CHOOSE m \in {records[j][field].n : j \in idx} : \A j \in idx : records[j][field].n <= m

SameCountry(records, country) ==
    {j \in 1..Len(records) : records[j].countriesAndTerritories = country}

SameDate(records, date) == {j \in 1..Len(records) : records[j].dateRep = date}

\* C4: after a successful load every row carries, as totalCases and
\* totalDeaths, the sums of cases and of deaths over all the records whose
\* country string is exactly the row's, so all rows of a country agree.
CountryTotalsBroadcast ==
    pc = "loaded" =>
        \A i \in 1..Len(allData) :
            LET same == SameCountry(response.records, allData[i].country)
            IN  /\ allData[i].totalCases = Num(SumAt(response.records, same, "cases"))
                /\ allData[i].totalDeaths = Num(SumAt(response.records, same, "deaths"))

\* A country with records after one whose running sum of cases was 0, and a
\* second spelling of it that is summed apart.
CountryTotalsWitness ==
    /\ pc = "loaded"
    /\ \E i, j \in 1..Len(allData) :
          /\ i < j
          /\ allData[i].country = allData[j].country
          /\ allData[i].cases = Num(0)
          /\ allData[j].cases # Num(0)
          /\ allData[i].totalCases = allData[j].cases
    /\ \E i, j \in 1..Len(response.records) :
          /\ response.records[i].countriesAndTerritories = Str(<<"A">>)
          /\ response.records[j].countriesAndTerritories = Str(<<" ", "a">>)
          /\ allData[i].totalCases # allData[j].totalCases

\* C5: after a successful load every row carries the mean and the maximum,
\* with 4 fractional digits, of cases and of deaths over exactly the records
\* whose date string is identical to the row's date.
DailyAggregatesBackFilled ==
    pc = "loaded" =>
        \A i \in 1..Len(allData) :
            LET same == SameDate(response.records, allData[i].date)
                mean(field) == Str(toFixed(Frac(SumAt(response.records, same, field),
                                                Cardinality(same)), 4))
                most(field) == Str(toFixed(Frac(MaxAt(response.records, same, field), 1), 4))
            IN  /\ i \in same
                /\ allData[i].averageCases = mean("cases")
                /\ allData[i].averageDeaths = mean("deaths")
                /\ allData[i].maxCases = most("cases")
                /\ allData[i].maxDeaths = most("deaths")

\* Two records of 05/03/2020 with cases 2 and -1, and one of 5/3/2020 with
\* cases 10 that stays out of their mean.
DailyAggregatesWitness ==
    /\ pc = "loaded"
    /\ \E i, j, k \in 1..Len(allData) :
          /\ i # j
          /\ allData[i].date = Str(D05Mar) /\ allData[i].cases = Num(2)
          /\ allData[j].date = Str(D05Mar) /\ allData[j].cases = Num(-1)
          /\ allData[k].date = Str(D5Mar) /\ allData[k].cases = Num(10)
          /\ allData[i].averageCases = Str(<<"0", ".", "5", "0", "0", "0">>)
          /\ allData[j].maxCases = Str(<<"2", ".", "0", "0", "0", "0">>)
          /\ allData[k].averageCases = Str(<<"1", "0", ".", "0", "0", "0", "0">>)

\* The index of the first record with the date string of point p.
FirstOccurrence(records, p) ==
    CHOOSE j \in SameDate(records, p.date) : \A k \in SameDate(records, p.date) : j <= k

\* One point per distinct date string of the records, each with the sums of
\* cases and of deaths over the records of that date string.
OnePointPerDate ==
    /\ \A j \in 1..Len(response.records) :
          \E n \in 1..Len(SumCovidData) : SumCovidData[n].date = response.records[j].dateRep
    /\ \A n \in 1..Len(SumCovidData) :
          LET same == SameDate(response.records, SumCovidData[n].date)
          IN  /\ same # {}
              /\ SumCovidData[n].totalCases = Num(SumAt(response.records, same, "cases"))
              /\ SumCovidData[n].totalDeaths = Num(SumAt(response.records, same, "deaths"))
    /\ \A m, n \in 1..Len(SumCovidData) :
          SumCovidData[m].date = SumCovidData[n].date => m = n

\* C6 as stated: one point per distinct date string with the sums of that
\* date, the points in the order in which their dates first occur.
TimeSeriesInFirstSeenOrder ==
    pc = "loaded" =>
        /\ OnePointPerDate
        /\ \A m, n \in 1..Len(SumCovidData) :
              m < n => FirstOccurrence(response.records, SumCovidData[m])
                           < FirstOccurrence(response.records, SumCovidData[n])

\* C6 as amended: one point per distinct date string with the sums of that
\* date; the points whose date string is a canonical array index (digits
\* only, such as "20200325") come first, in ascending numeric order, and the
\* other points (every slash-separated date) follow in the order in which
\* their dates first occur.
TimeSeriesInPropertyOrder ==
    pc = "loaded" =>
        /\ OnePointPerDate
        /\ \A m, n \in 1..Len(SumCovidData) :
              m < n =>
                  LET a == SumCovidData[m].date.s
                      b == SumCovidData[n].date.s
                  IN  \/ IsArrayIndex(a) /\ ~IsArrayIndex(b)
                      \/ IsArrayIndex(a) /\ IsArrayIndex(b) /\ IndexLess(a, b)
                      \/ /\ ~IsArrayIndex(a) /\ ~IsArrayIndex(b)
                         /\ FirstOccurrence(response.records, SumCovidData[m])
                                < FirstOccurrence(response.records, SumCovidData[n])

\* Two slash-separated dates in first-seen order, the earlier one met twice
\* and summed over two countries, after a digit-only date met last.
TimeSeriesWitness ==
    /\ pc = "loaded"
    /\ Len(response.records) = 4
    /\ response.records[1].dateRep = Str(D05Mar)
    /\ response.records[2].dateRep = Str(D25Mar)
    /\ response.records[3].dateRep = Str(D05Mar)
    /\ response.records[3].countriesAndTerritories # response.records[1].countriesAndTerritories
    /\ response.records[4].dateRep = Str(DCompact)
    /\ Len(SumCovidData) = 3
    /\ SumCovidData[1].date = Str(DCompact)
    /\ SumCovidData[2].date = Str(D05Mar)
    /\ SumCovidData[2].totalCases
           = Num(response.records[1].cases.n + response.records[3].cases.n)
    /\ SumCovidData[3].date = Str(D25Mar)

\* C7: after the load the row list holds exactly one row per record, in the
\* order of the records, each with its record's country, cases, deaths and
\* date.
OneRowPerRecord ==
    pc = "loaded" =>
        /\ Len(allData) = Len(response.records)
        /\ \A i \in 1..Len(allData) :
              /\ allData[i].country = response.records[i].countriesAndTerritories
              /\ allData[i].cases = response.records[i].cases
              /\ allData[i].deaths = response.records[i].deaths
              /\ allData[i].date = response.records[i].dateRep

\* A load of several records, one of them reporting no case, two of them
\* alike in country and date.
OneRowPerRecordWitness ==
    /\ pc = "loaded"
    /\ Len(allData) >= 3
    /\ \E i, j \in 1..Len(allData) :
          /\ i < j
          /\ allData[i] = allData[j]
    /\ \E i \in 1..Len(allData) : allData[i].cases = Num(0)

(***************************************************************************)
(* The table filter: a load and the filter widgets                         *)
(***************************************************************************)
MaxFilterRecords == 2

\* The records the filter is exercised on: a day past 12, a second spelling
\* of the country with a null population, a date without leading zeros with
\* a zero population, a digit-only date and a record without a dateRep.
FilterRecords ==
    <<SampleRecords[1], SampleRecords[3], SampleRecords[4], SampleRecords[5],
      SampleRecords[7]>>

\* What the date pickers hand to onChange: null or 1 April 2020.
DateInputs == {Null, Date(DayNumber(2020, 4, 1))}

\* What the min and max inputs hold: '', "1", "0.5".
ValueInputs == {<<>>, <<"1">>, <<"0", ".", "5">>}

InitFilter ==
    \E answer \in {Rejected} \cup {Ok(p) : p \in SequencesUpTo(FilterRecords, MaxFilterRecords)} :
        InitWith(answer)

NextFilter ==
    \/ FetchRejected
    \/ FetchProcessed
    \/ FetchThrows
    \/ \E date \in DateInputs : SetStartDate(date)
    \/ \E date \in DateInputs : SetEndDate(date)
    \/ \E k \in 1..Len(getUniqueCountries) : SelectCountry(k)
    \/ \E k \in 1..Len(getColumnOptions) : SelectColumn(k)
    \/ \E text \in ValueInputs : handleMinValueChange(text)
    \/ \E text \in ValueInputs : handleMaxValueChange(text)
    \/ resetFilters

SpecFilter == InitFilter /\ [][NextFilter]_vars

(***************************************************************************)
(* Properties of the table filter                                          *)
(***************************************************************************)
\* The value is a day/month/year string that names a day of the calendar.
IsCalendarDate(v) ==
    /\ IsStr(v)
    /\ LET f == split(v.s, "/")
       IN  /\ Len(f) = 3
           /\ \A i \in 1..3 : AllDigits(f[i])
           /\ DigitsToNat(f[2]) \in 1..12
           /\ DigitsToNat(f[1]) \in 1..DaysInMonth(DigitsToNat(f[3]), DigitsToNat(f[2]))

\* The day number of a day/month/year string.
CalendarDay(v) ==
    LET f == split(v.s, "/")
    IN  DayNumber(DigitsToNat(f[3]), DigitsToNat(f[2]), DigitsToNat(f[1]))

\* A bound of the date range that bounds nothing.
Unset(d) == d \in {Null, InvalidDate}

\* C1: a row whose date is a valid day/month/year calendar date d passes the
\* date-range clause if and only if (startDate is unset or d >= startDate)
\* and (endDate is unset or d <= endDate).
DateClauseReadsDayMonthYear ==
    \A i \in 1..Len(allData) :
        IsCalendarDate(allData[i].date) =>
            (isDateValid(allData[i])
                <=> /\ (Unset(startDate) \/ CalendarDay(allData[i].date) >= startDate.time)
                    /\ (Unset(endDate) \/ CalendarDay(allData[i].date) <= endDate.time))

\* s without the white space at its two ends.
Stripped(s) ==
    LET inner == {i \in 1..Len(s) : s[i] \notin WhiteSpace}
    IN  IF inner = {} THEN <<>>
        ELSE SubSeq(s, CHOOSE a \in inner : \A i \in inner : a <= i,
                       CHOOSE b \in inner : \A i \in inner : b >= i)

\* x and y are the same string up to the case of their letters.
EqualIgnoringCase(x, y) ==
    /\ Len(x) = Len(y)
    /\ \A i \in 1..Len(x) :
          \/ x[i] = y[i]
          \/ \E k \in 1..26 : {x[i], y[i]} = {UpperChars[k], LowerChars[k]}

CountryClause(entry) ==
    selectedCountry = <<>> \/ EqualIgnoringCase(Stripped(entry.country.s), selectedCountry)

\* C2: a row passes the country clause if and only if no country is selected
\* or its country, trimmed, equals the selected country up to case; the
\* filtered rows are the rows that pass the country, the date-range and the
\* column-range clause, in the order of the row list.
CountryClauseAndConjunction ==
    /\ \A i \in 1..Len(allData) : countryMatches(allData[i]) <=> CountryClause(allData[i])
    /\ filteredData = SelectSeq(allData, LAMBDA entry :
           CountryClause(entry) /\ isDateValid(entry) /\ isValueValid(entry))

\* Country "A" selected: the row of " a" passes and is shown, and a row of
\* "A" passes the country clause but is kept out by its date.
CountryClauseWitness ==
    /\ pc = "loaded"
    /\ selectedCountry = <<"A">>
    /\ \E i \in 1..Len(filteredData) : filteredData[i].country = Str(<<" ", "a">>)
    /\ \E i \in 1..Len(allData) :
          /\ allData[i].country = Str(<<"A">>)
          /\ countryMatches(allData[i])
          /\ ~isDateValid(allData[i])
    /\ Len(filteredData) < Len(allData)

\* The number a decimal string spells, as a fraction: its digits over the
\* power of ten of its fraction digits.
DecimalOf(s) ==
    LET body == IF s[1] = "-" THEN Tail(s) ELSE s
        digits == SelectSeq(body, IsDigit)
        point == IF \E i \in 1..Len(body) : body[i] = "."
                 THEN CHOOSE i \in 1..Len(body) : body[i] = "."
                 ELSE Len(body) + 1
        n == DigitsToNat(digits)
    IN  [num |-> IF s[1] = "-" THEN -n ELSE n, den |-> Pow10(Len(body) + 1 - point - (IF point > Len(body) THEN 0 ELSE 1))]

\* The number a field of a row holds.
ValueOf(v) == IF IsNum(v) THEN [num |-> v.n, den |-> 1] ELSE DecimalOf(v.s)

AtLeast(a, b) == a.num * b.den >= b.num * a.den

ColumnClause(entry) ==
    \/ selectedColumn = Null
    \/ LET value == Field(entry, selectedColumn.value)
       IN  /\ value \notin {Undefined, Null}
           /\ (minValue = <<>> \/ AtLeast(ValueOf(value), DecimalOf(minValue)))
           /\ (maxValue = <<>> \/ AtLeast(DecimalOf(maxValue), ValueOf(value)))

\* C3: with no filter column selected the column-range clause passes; with
\* one selected a row passes if and only if its value for that column is
\* defined and non-null, at least min unless min is empty, and at most max
\* unless max is empty, the value compared as a number.
ColumnRangeClause ==
    \A i \in 1..Len(allData) : isValueValid(allData[i]) <=> ColumnClause(allData[i])

\* A column and both bounds set: a row whose decimal string lies on both
\* bounds passes, and a row with a valid date is kept out by the clause.
ColumnRangeWitness ==
    /\ pc = "loaded"
    /\ selectedColumn # Null
    /\ selectedColumn.value = "casesPer1000"
    /\ minValue = <<"1">>
    /\ maxValue = <<"1">>
    /\ \E i \in 1..Len(allData) :
          /\ allData[i].casesPer1000 = Str(<<"1", ".", "0", "0", "0", "0", "0">>)
          /\ isValueValid(allData[i])
    /\ \E i \in 1..Len(allData) :
          /\ isDateValid(allData[i])
          /\ ~isValueValid(allData[i])
          /\ \A k \in 1..Len(filteredData) : filteredData[k] # allData[i]

(***************************************************************************)
(* The pages of the table                                                  *)
(***************************************************************************)
\* The payloads hold up to MaxPageRows records.
MaxPageRows == 8

\* Records whose rows the default date range keeps, but for a payload of
\* the first alone.
PageRecords == <<SampleRecords[2], SampleRecords[6], SampleRecords[4], SampleRecords[3]>>

\* n records, the page records over and over.
PagePayload(n) == [i \in 1..n |-> PageRecords[((i - 1) % Len(PageRecords)) + 1]]

\* A payload whose third record stops the load.
ThrowingPayload == <<SampleRecords[2], SampleRecords[6], SampleRecords[7]>>

ItemsPerPageInputs == {<<"1">>, <<"2">>, <<"3">>, <<"1", "0">>}

SortInputs == {"country", "cases"}

InitPage ==
    \E answer \in {Rejected, Ok(ThrowingPayload)} \cup {Ok(PagePayload(n)) : n \in 0..MaxPageRows} :
        InitWith(answer)

NextPage ==
    \/ FetchRejected
    \/ FetchProcessed
    \/ FetchThrows
    \/ \E text \in ItemsPerPageInputs : handleItemsPerPageChange(text)
    \/ \E k \in 1..(maxPageButtons + 4) : paginate(k)
    \/ \E column \in SortInputs : handleColumnSort(column)
    \/ resetFilters

SpecPage == InitPage /\ [][NextPage]_vars

\* C8: totalPages is the ceiling of m/n for m filtered and sorted rows and
\* n = itemsPerPage >= 1; page p shows exactly the rows at the 0-based
\* indices (p-1)*n up to, not including, p*n; every row is on exactly one
\* of the pages 1..totalPages, in order; a page after totalPages is empty.
PagesPartitionRows ==
    LET n == itemsPerPage
        rows == sortedFilteredData
        m == Len(rows)
        onPage(p) == {i \in 0..(m - 1) : (p - 1) * n <= i /\ i < p * n}
    IN  /\ Len(filteredData) = m
        /\ totalPages * n >= m
        /\ (totalPages - 1) * n < m
        /\ \A p \in 1..(totalPages + 2) :
              /\ Len(PageRows(p)) = Cardinality(onPage(p))
              /\ \A k \in 1..Len(PageRows(p)) : PageRows(p)[k] = rows[(p - 1) * n + k]
              /\ (p > totalPages => PageRows(p) = <<>>)
        /\ \A i \in 0..(m - 1) : Cardinality({p \in 1..totalPages : i \in onPage(p)}) = 1

\* Eight sorted rows three to a page: the third and last page shows two, and
\* the page after it is empty.
PagesPartitionWitness ==
    /\ pc = "loaded"
    /\ sortedColumn = Name("cases")
    /\ Len(filteredData) = 8
    /\ itemsPerPage = 3
    /\ totalPages = 3
    /\ currentPage = 3
    /\ Len(PageRows(currentPage)) = 2
    /\ PageRows(currentPage + 1) = <<>>

\* The pages of the numbered buttons renderPageNumbers shows for a page.
NumberedPages(page, pages) ==
    LET numbered == SelectSeq(PageButtons(page, pages),
                              LAMBDA b : b.buttonType \in {"current", "normal"})
    IN  [k \in 1..Len(numbered) |-> numbered[k].target]

\* C9: for totalPages >= 1 and every current page in 1..totalPages the
\* numbered buttons are the pages s..e, one after the other, with
\* 1 <= s <= page <= e <= totalPages and e - s + 1 = min(5, totalPages), and
\* s = page - 2, e = page + 2 when page - 2 >= 1 and page + 2 <= totalPages.
PageWindowAroundCurrent ==
    \A page \in 1..totalPages :
        LET shown == NumberedPages(page, totalPages)
            s == shown[1]
            e == shown[Len(shown)]
        IN  /\ Len(shown) = Min(5, totalPages)
            /\ \A k \in 1..Len(shown) : shown[k] = s + k - 1
            /\ 1 <= s /\ s <= page /\ page <= e /\ e <= totalPages
            /\ (page - 2 >= 1 /\ page + 2 <= totalPages => s = page - 2 /\ e = page + 2)
            /\ \A k \in 1..Len(shown) :
                  NumberButtons(PageWindow(page, totalPages), page)[k].label = IntToString(shown[k])

\* Eight pages, the seventh current: the window is held at the last page
\* and shows 4..8.
PageWindowWitness ==
    /\ pc = "loaded"
    /\ totalPages = 8
    /\ currentPage = 7
    /\ NumberedPages(currentPage, totalPages) = <<4, 5, 6, 7, 8>>

\* The buttons before and after the numbered ones, by type.
TypesBefore(page, pages) ==
    LET all == PageButtons(page, pages)
        first == CHOOSE k \in 1..Len(all) : all[k].target = NumberedPages(page, pages)[1]
                                             /\ all[k].buttonType \in {"current", "normal"}
    IN  {all[k].buttonType : k \in 1..(first - 1)}

TypesAfter(page, pages) ==
    LET all == PageButtons(page, pages)
        shown == NumberedPages(page, pages)
        last == CHOOSE k \in 1..Len(all) : all[k].target = shown[Len(shown)]
                                            /\ all[k].buttonType \in {"current", "normal"}
    IN  {all[k].buttonType : k \in (last + 1)..Len(all)}

\* C10 as stated: "<<" and a left ellipsis are both shown exactly when the
\* numbered window does not start at page 1, and ">>" and a right ellipsis
\* are both shown exactly when it does not end at the last page.
EllipsisWithEveryJump ==
    \A page \in 1..totalPages :
        LET shown == NumberedPages(page, totalPages)
        IN  /\ TypesBefore(page, totalPages) =
                  (IF shown[1] # 1 THEN {"double-arrow", "ellipsis"} ELSE {})
            /\ TypesAfter(page, totalPages) =
                  (IF shown[Len(shown)] # totalPages THEN {"double-arrow", "ellipsis"} ELSE {})

\* C10, amended: "<<" is shown exactly when the window does not start at
\* page 1 and the left ellipsis exactly when it starts after page 2; ">>" is
\* shown exactly when the window does not end at the last page and the
\* right ellipsis exactly when it ends before the page next to the last.
EllipsisOnlyOverAGap ==
    \A page \in 1..totalPages :
        LET shown == NumberedPages(page, totalPages)
            s == shown[1]
            e == shown[Len(shown)]
        IN  /\ ("double-arrow" \in TypesBefore(page, totalPages)) <=> (s # 1)
            /\ ("ellipsis" \in TypesBefore(page, totalPages)) <=> (s > 2)
            /\ ("double-arrow" \in TypesAfter(page, totalPages)) <=> (e # totalPages)
            /\ ("ellipsis" \in TypesAfter(page, totalPages)) <=> (e < totalPages - 1)

\* Seven pages, the fourth current: the window 2..6 has "<<" and ">>" at its
\* sides and no ellipsis.
EllipsisWitness ==
    /\ pc = "loaded"
    /\ totalPages = 7
    /\ currentPage = 4
    /\ NumberedPages(currentPage, totalPages) = <<2, 3, 4, 5, 6>>
    /\ [k \in 1..Len(renderPageNumbers) |-> renderPageNumbers[k].buttonType]
           = <<"double-arrow", "normal", "normal", "current", "normal", "normal", "double-arrow">>

(***************************************************************************)
(* sortData called on its own                                              *)
(***************************************************************************)
\* The lists sorted hold up to MaxSortRows rows.
MaxSortRows == 3

\* A row of the table with the fields the sort is tried on.
SortRow(country, date, cases, totalCases, averageCases) ==
    [country |-> country, date |-> date, cases |-> cases, deaths |-> Num(0),
     casesPer1000 |-> Str(<<"0", ".", "0", "0", "0", "0", "0">>),
     deathsPer1000 |-> Str(<<"0", ".", "0", "0", "0", "0", "0">>),
     totalCases |-> totalCases, totalDeaths |-> Num(0),
     averageCases |-> averageCases,
     averageDeaths |-> Str(<<"0", ".", "0", "0", "0", "0">>),
     maxCases |-> Str(<<"0", ".", "0", "0", "0", "0">>),
     maxDeaths |-> Str(<<"0", ".", "0", "0", "0", "0">>)]

\* Rows with ties on every column, two cases of the letters of a country,
\* decimal strings of two lengths, and texts, null and undefined where a
\* number is expected.
SortRows ==
    <<SortRow(Str(<<"B">>), Str(D05Mar), Num(10), Num(10),
              Str(<<"1", "0", ".", "0", "0", "0", "0">>)),
      SortRow(Str(<<"a">>), Str(D25Mar), Num(9), Num(9),
              Str(<<"9", ".", "0", "0", "0", "0">>)),
      SortRow(Str(<<"A">>), Str(D05Mar), Num(9), Str(<<"a", "b", "c">>),
              Str(<<"N", "a", "N">>)),
      SortRow(Str(<<"b">>), Str(D03May), Num(0), Str(<<"1", "2", "a", "b", "c">>), Null),
      SortRow(Str(<<"B">>), Str(D5Mar), Num(-1), Num(0),
              Str(<<"9", ".", "0", "0", "0", "0">>)),
      SortRow(Str(<<>>), Str(D25Mar), Undefined, Undefined, Undefined)>>

\* The columns a caller sorts by: the headers of the table and the date.
SortColumns == {SortableColumns[i] : i \in 1..Len(SortableColumns)} \cup {"date"}

SortCall(data, column, direction) ==
    [fn |-> "sortData", data |-> data, column |-> column, direction |-> direction]

\* Lines 84-126, called with the arguments of `call`.
CallSortData ==
    /\ call.fn = "sortData"
    /\ outcome = Pending
    /\ outcome' = Returned(sortData(call.data, call.column, call.direction))
    /\ UNCHANGED <<pc, response, allData, SumCovidData, minDate, maxDate, startDate,
                   endDate, selectedCountry, selectedColumn, minValue, maxValue,
                   itemsPerPage, currentPage, sortedColumn, sortDirection, selectedTab,
                   call>>

InitSort ==
    \E data \in SequencesUpTo(SortRows, MaxSortRows), column \in SortColumns,
       direction \in {"asc", "desc"} :
        InitCalling(SortCall(data, column, direction))

NextSort == CallSortData

SpecSort == InitSort /\ [][NextSort]_vars

\* sortData has returned.
Sorted == call.fn = "sortData" /\ outcome.kind = "returned"

\* The one-to-one maps of 1..n onto itself.
Rearrangements(n) == {f \in [1..n -> 1..n] : \A i, j \in 1..n : f[i] = f[j] => i = j}

\* C11: for every column and both directions sortData returns a permutation
\* of its input in which two rows that compare equal on the column keep the
\* order they had in the input.
SortIsStable ==
    Sorted =>
        LET data == call.data
            sorted == outcome.value
        IN  /\ Len(sorted) = Len(data)
            /\ \E from \in Rearrangements(Len(data)) :
                  /\ \A i \in 1..Len(data) : sorted[i] = data[from[i]]
                  /\ \A i, j \in 1..Len(data) :
                        (i < j /\ Comparator(sorted[i], sorted[j], call.column, call.direction) = 0)
                            => from[i] < from[j]

\* Sorted by country, descending, the two rows of "B" stay in input order
\* while "b" has moved ahead of them.
SortIsStableWitness ==
    /\ Sorted
    /\ call.column = "country"
    /\ call.direction = "desc"
    /\ call.data = <<SortRows[1], SortRows[5], SortRows[4]>>
    /\ outcome.value = <<SortRows[1], SortRows[5], SortRows[4]>>

Reverse(seq) == [i \in 1..Len(seq) |-> seq[Len(seq) + 1 - i]]

DistinctCountries(data) ==
    \A i, j \in 1..Len(data) : i # j => data[i].country # data[j].country

\* C12: sorting by country ascending a second time changes nothing; for
\* rows with pairwise distinct countries the descending order is the
\* ascending order reversed; 'desc' negates the comparator.
SortDirectionReverses ==
    (Sorted /\ call.column = "country") =>
        LET ascending == sortData(call.data, "country", "asc")
        IN  /\ sortData(ascending, "country", "asc") = ascending
            /\ (call.direction = "asc" => outcome.value = ascending)
            /\ (call.direction = "desc" /\ DistinctCountries(call.data))
                  => outcome.value = Reverse(ascending)
            /\ \A i, j \in 1..Len(call.data) :
                  Comparator(call.data[i], call.data[j], "country", "desc")
                      = -Comparator(call.data[i], call.data[j], "country", "asc")

\* "B", "a", "A" sorted by country descending come out as "B", "A", "a", the
\* reverse of the ascending order.
SortDirectionWitness ==
    /\ Sorted
    /\ call.column = "country"
    /\ call.direction = "desc"
    /\ call.data = <<SortRows[1], SortRows[2], SortRows[3]>>
    /\ outcome.value = <<SortRows[1], SortRows[3], SortRows[2]>>
    /\ sortData(call.data, "country", "asc") = <<SortRows[2], SortRows[3], SortRows[1]>>

\* The number of digits in a row in s from position k on.
DigitRun(s, k) ==
    CHOOSE n \in 0..Len(s) :
        /\ \A i \in k..(k + n - 1) : i <= Len(s) /\ IsDigit(s[i])
        /\ (k + n > Len(s) \/ ~IsDigit(s[k + n]))

\* The length of the longest prefix of s that spells a decimal number: an
\* optional "-", digits, and an optional "." with digits.
NumberPrefixLength(s) ==
    LET sign == IF s # <<>> /\ s[1] = "-" THEN 1 ELSE 0
        whole == DigitRun(s, sign + 1)
        point == sign + whole + 1
        fraction == IF point <= Len(s) /\ s[point] = "." THEN DigitRun(s, point + 1) ELSE 0
    IN  IF whole = 0 THEN 0
        ELSE IF fraction = 0 THEN sign + whole
        ELSE sign + whole + 1 + fraction

\* The number a value of a numeric column counts as: itself, the decimal
\* number its text starts with, or 0.
NumericKey(v) ==
    IF IsNum(v) THEN [num |-> v.n, den |-> 1]
    ELSE IF IsStr(v) /\ NumberPrefixLength(v.s) > 0
    THEN DecimalOf(SubSeq(v.s, 1, NumberPrefixLength(v.s)))
    ELSE [num |-> 0, den |-> 1]

\* C13: sorted ascending by one of the eight numeric columns, the rows are
\* in the order of the numeric values of the column: a decimal string counts
\* as the number it spells, another value as the number its text starts
\* with, or 0.
NumericColumnsSortByNumber ==
    (Sorted /\ call.column \in NumericColumns /\ call.direction = "asc") =>
        \A i, j \in 1..Len(outcome.value) :
            i < j => AtLeast(NumericKey(outcome.value[j][call.column]),
                             NumericKey(outcome.value[i][call.column]))

\* Sorted by averageCases: "NaN" counts as 0 and "9.0000" goes before
\* "10.0000".
NumericColumnsWitness ==
    /\ Sorted
    /\ call.column = "averageCases"
    /\ call.direction = "asc"
    /\ call.data = <<SortRows[1], SortRows[2], SortRows[3]>>
    /\ outcome.value = <<SortRows[3], SortRows[2], SortRows[1]>>

\* String(value || ''), the text sortData takes in the other columns.
TextOf(v) == IF Truthy(v) THEN JSString(v) ELSE <<>>

OtherColumn(column) == column # "country" /\ column \notin NumericColumns

\* C14 as stated: sorted ascending by a column that is neither country nor
\* one of the eight numeric columns, the rows are in the lexicographic order
\* of the texts of their values (cases 10 before cases 9).
OtherColumnsSortAsText ==
    (Sorted /\ OtherColumn(call.column) /\ call.direction = "asc") =>
        \A i, j \in 1..Len(outcome.value) :
            i < j => localeCompare(TextOf(outcome.value[i][call.column]),
                                   TextOf(outcome.value[j][call.column])) <= 0

\* The text spells a decimal number, or is empty and counts as 0.
SpellsNumber(text) == NumberPrefixLength(text) = Len(text)

\* C14, amended: in such a column two values whose texts both spell numbers
\* (the empty text of a missing or zero value counting as 0) are ordered as
\* numbers, cases 9 before cases 10; two values of which one does not spell
\* a number are ordered as texts.
OtherColumnsSortNumbersAsNumbers ==
    (Sorted /\ OtherColumn(call.column) /\ call.direction = "asc") =>
        \A i, j \in 1..Len(outcome.value) :
            i < j =>
                LET x == TextOf(outcome.value[i][call.column])
                    y == TextOf(outcome.value[j][call.column])
                IN  IF SpellsNumber(x) /\ SpellsNumber(y)
                    THEN AtLeast(NumericKey(Str(y)), NumericKey(Str(x)))
                    ELSE localeCompare(x, y) <= 0

\* Sorted by cases, the row with 9 cases goes before the row with 10.
OtherColumnsWitness ==
    /\ Sorted
    /\ call.column = "cases"
    /\ call.direction = "asc"
    /\ call.data = <<SortRows[1], SortRows[2]>>
    /\ outcome.value = <<SortRows[2], SortRows[1]>>

Sign(n) == IF n < 0 THEN -1 ELSE IF n > 0 THEN 1 ELSE 0

\* C15 as stated: in a numeric column, when one of two rows holds a value
\* that is not a number, the comparator orders the two by the comparison of
\* the texts of their raw values.
NumericColumnFallsBackToText ==
    (Sorted /\ call.column \in NumericColumns) =>
        \A i, j \in 1..Len(call.data) :
            LET a == call.data[i][call.column]
                b == call.data[j][call.column]
            IN  (ToNumber(a).nan \/ ToNumber(b).nan) =>
                    Sign(Comparator(call.data[i], call.data[j], call.column, "asc"))
                        = Sign(localeCompare(JSString(a), JSString(b)))

\* C15, amended: in a numeric column the comparator always compares numbers;
\* a value that is not a number is first replaced by the number its text
\* starts with, or by 0, and no comparison of texts takes place.
NumericColumnComparesNumbers ==
    (Sorted /\ call.column \in NumericColumns) =>
        \A i, j \in 1..Len(call.data) :
            LET a == NumericKey(call.data[i][call.column])
                b == NumericKey(call.data[j][call.column])
                c == Comparator(call.data[i], call.data[j], call.column, "asc")
            IN  /\ c <= 0 <=> AtLeast(b, a)
                /\ c >= 0 <=> AtLeast(a, b)

\* Sorted by totalCases: "abc" counts as 0 and goes before 9, and "12abc"
\* counts as 12 and goes after it.
NumericComparisonWitness ==
    /\ Sorted
    /\ call.column = "totalCases"
    /\ call.direction = "asc"
    /\ call.data = <<SortRows[4], SortRows[2], SortRows[3]>>
    /\ outcome.value = <<SortRows[3], SortRows[2], SortRows[4]>>

(***************************************************************************)
(* calculatePer1000 called on its own                                      *)
(***************************************************************************)
\* A record with the three fields calculatePer1000 reads; undefined stands
\* for a field the record does not have.
RateData(cases, deaths, popData2019) ==
    [countriesAndTerritories |-> Str(<<"A">>), dateRep |-> Str(D05Mar),
     cases |-> cases, deaths |-> deaths, popData2019 |-> popData2019]

CaseCounts == {Undefined, Num(0), Num(1), Num(5), Num(-1)}
DeathCounts == {Undefined, Num(0), Num(2)}
Populations == {Undefined, Null, Num(0), Num(3), Num(1000), Num(2000000),
                Num(10000000), Num(20000000)}

\* The records a caller passes, and no record at all.
RateInputs ==
    {Undefined, Null}
        \cup {RateData(c, d, p) : c \in CaseCounts, d \in DeathCounts, p \in Populations}

RateCall(data, forDeaths) ==
    [fn |-> "calculatePer1000", data |-> data, forDeaths |-> forDeaths]

\* Lines 8-33, called with the arguments of `call`: line 10 reads a property
\* of data before line 13 tests data, and throws a TypeError when data is
\* undefined or null.
CallCalculatePer1000 ==
    /\ call.fn = "calculatePer1000"
    /\ outcome = Pending
    /\ outcome' = IF call.data \in {Undefined, Null}
                  THEN Threw("TypeError")
                  ELSE Returned(calculatePer1000(call.data, call.forDeaths))
    /\ UNCHANGED <<pc, response, allData, SumCovidData, minDate, maxDate, startDate,
                   endDate, selectedCountry, selectedColumn, minValue, maxValue,
                   itemsPerPage, currentPage, sortedColumn, sortDirection, selectedTab,
                   call>>

InitRate ==
    \E data \in RateInputs, forDeaths \in BOOLEAN : InitCalling(RateCall(data, forDeaths))

NextRate == CallCalculatePer1000

SpecRate == InitRate /\ [][NextRate]_vars

\* calculatePer1000 has ended, one way or the other.
RateEnded == call.fn = "calculatePer1000" /\ outcome # Pending

\* The record of the call is an object.
HasRecord == call.data \notin {Undefined, Null}

\* The count the call selects.
SelectedCount == IF call.forDeaths THEN call.data.deaths ELSE call.data.cases

ZeroCase == [numericValue |-> Frac(0, 1), displayValue |-> <<"0">>]

\* C16: for every record whose selected count is exactly 0 or whose
\* popData2019 is null, calculatePer1000 returns numericValue 0 and
\* displayValue "0", whatever the other fields are.
RateZeroShortCircuit ==
    (RateEnded /\ HasRecord) =>
        ((SelectedCount = Num(0) \/ call.data.popData2019 = Null)
            => outcome = Returned(ZeroCase))

\* No cases in a population of 0: the zero case, not the rate 0/0.
RateZeroWitness ==
    /\ RateEnded
    /\ ~call.forDeaths
    /\ call.data = RateData(Num(0), Num(2), Num(0))
    /\ outcome = Returned(ZeroCase)

\* C17: for every input, an absent record and a record without its count
\* or its popData2019 included, calculatePer1000 raises no exception and
\* returns the zero case.
RateNeverThrows ==
    RateEnded =>
        /\ outcome.kind = "returned"
        /\ (~HasRecord => outcome.value = ZeroCase)
        /\ (HasRecord /\ (SelectedCount = Undefined \/ call.data.popData2019 = Undefined))
              => outcome.value = ZeroCase

Sentinel == [numericValue |-> Frac(1, 10000), displayValue |-> <<"0">>]

\* C18: for every record with a nonzero selected count and population 0,
\* calculatePer1000 returns numericValue 0.0001 and displayValue "0" and
\* raises no error; the row of the table then shows "0.00010" per 1000.
RateNonFiniteSentinel ==
    (RateEnded /\ HasRecord) =>
        ((IsNum(SelectedCount) /\ SelectedCount # Num(0) /\ call.data.popData2019 = Num(0))
            => /\ outcome = Returned(Sentinel)
               /\ (IF call.forDeaths THEN NewData(call.data).deathsPer1000
                                     ELSE NewData(call.data).casesPer1000)
                      = Str(<<"0", ".", "0", "0", "0", "1", "0">>))

\* Two deaths in a population of 0.
RateSentinelWitness ==
    /\ RateEnded
    /\ call.forDeaths
    /\ call.data = RateData(Num(5), Num(2), Num(0))
    /\ outcome = Returned(Sentinel)

\* The greatest common divisor of two naturals, not both 0.
RECURSIVE GCD(_, _)
GCD(a, b) == IF b = 0 THEN a ELSE GCD(b, a % b)

\* The fraction num/den, den > 0, in lowest terms.
Lowest(num, den) ==
    [num |-> num \div GCD(Abs(num), den), den |-> den \div GCD(Abs(num), den)]

\* C19: for every record with a nonzero count and a population that is a
\* number other than 0, numericValue is count / (population / 1000);
\* displayValue is "<0.0001" exactly when that rate is below 0.0001, and
\* otherwise the rate with exactly 4 digits after the point.
RateDisplayThreshold ==
    (RateEnded /\ HasRecord) =>
        LET count == SelectedCount
            pop == call.data.popData2019
        IN  (IsNum(count) /\ count # Num(0) /\ IsNum(pop) /\ pop # Num(0)) =>
                LET rate == outcome.value.numericValue
                    display == outcome.value.displayValue
                    shown == DecimalOf(display)
                    gap == shown.num * pop.n - count.n * 1000 * 10000
                IN  /\ outcome.kind = "returned"
                    /\ rate.finite
                    /\ Lowest(rate.num, rate.den) = Lowest(count.n * 1000, pop.n)
                    /\ (display = <<"<", "0", ".", "0", "0", "0", "1">>)
                          <=> (count.n * 1000 * 10000 < pop.n)
                    /\ (count.n * 1000 * 10000 >= pop.n) =>
                          /\ Len(display) >= 6
                          /\ display[Len(display) - 4] = "."
                          /\ \A i \in 1..Len(display) : i # Len(display) - 4 => IsDigit(display[i])
                          /\ 2 * Abs(gap) <= pop.n

\* One case in 20,000,000 shows "<0.0001".
RateThresholdWitness ==
    /\ RateEnded
    /\ ~call.forDeaths
    /\ call.data = RateData(Num(1), Num(0), Num(20000000))
    /\ outcome.kind = "returned"
    /\ outcome.value.displayValue = <<"<", "0", ".", "0", "0", "0", "1">>
    /\ calculatePer1000(RateData(Num(1), Num(0), Num(2000000)), FALSE).displayValue
           = <<"0", ".", "0", "0", "0", "5">>

(***************************************************************************)
(* The application: the load and every control of the page                 *)
(***************************************************************************)
\* A record dated month/day/year, which is no day/month/year date.
MonthFirstRecord == Record(<<"B">>, Str(<<"0", "1", "/", "2", "5", "/", "2", "0", "2", "0">>), 1, 0, Num(1000))

\* The answers of the GET: a failure, two rows of one country, two rows of
\* two countries, a month/day/year date next to a day/month/year one, and a
\* payload that stops the load.
Answers ==
    {Rejected, Ok(PagePayload(2)), Ok(<<SampleRecords[3], SampleRecords[4]>>),
     Ok(<<MonthFirstRecord, SampleRecords[1]>>), Ok(ThrowingPayload)}

Tabs == {"Table", "Chart"}

Init == \E answer \in Answers : InitWith(answer)

Next ==
    \/ FetchRejected
    \/ FetchProcessed
    \/ FetchThrows
    \/ \E date \in DateInputs : SetStartDate(date)
    \/ \E date \in DateInputs : SetEndDate(date)
    \/ \E tab \in Tabs : SetSelectedTab(tab)
    \/ \E k \in 1..2 : SelectCountry(k)
    \/ \E k \in 1..2 : SelectColumn(k)
    \/ \E text \in {<<>>, <<"1">>} : handleMinValueChange(text)
    \/ \E text \in {<<>>, <<"1">>} : handleMaxValueChange(text)
    \/ \E text \in {<<"1">>, <<"1", "0">>} : handleItemsPerPageChange(text)
    \/ \E k \in 1..(maxPageButtons + 4) : paginate(k)
    \/ handleColumnSort("country")
    \/ resetFilters

Spec == Init /\ [][Next]_vars

\* The fields of FilterState.
FilterState ==
    <<selectedCountry, startDate, endDate, selectedColumn, minValue, maxValue,
      sortedColumn, sortDirection, currentPage, itemsPerPage>>

\* C20: if the GET fails the error is caught: the row list and the
\* time-series list are empty in every state, the step that handles the
\* failure changes no field of FilterState (which holds its defaults until
\* the user acts), and the GET is never issued again.
FetchFailureLeavesEmpty ==
    /\ [](response.status = "error" =>
            /\ allData = <<>> /\ SumCovidData = <<>>
            /\ minDate = Null /\ maxDate = Null
            /\ pc \in {"fetching", "failed"})
    /\ [][(response.status = "error" /\ pc = "fetching" /\ pc' # pc) =>
            (pc' = "failed" /\ UNCHANGED FilterState)]_vars
    /\ [][response' = response /\ (pc = "failed" => pc' = "failed")]_vars

\* The GET has failed and the user has changed the page size and picked a
\* filter column since: nothing is listed.
FetchFailureWitness ==
    /\ pc = "failed"
    /\ response.status = "error"
    /\ itemsPerPage = 1
    /\ selectedColumn # Null
    /\ startDate = Null /\ endDate = Null
    /\ allData = <<>> /\ SumCovidData = <<>>
    /\ filteredData = <<>>

\* C21: after resetFilters every field of FilterState holds its default,
\* the date range being the one of the load, or unset before it.
ResetRestoresDefaults ==
    [][resetFilters =>
          /\ selectedCountry' = <<>>
          /\ startDate' \in {Null, minDate'}
          /\ endDate' \in {Null, maxDate'}
          /\ selectedColumn' = Null
          /\ minValue' = <<>>
          /\ maxValue' = <<>>
          /\ sortedColumn' = Null
          /\ sortDirection' = "asc"
          /\ currentPage' = 1
          /\ itemsPerPage' = 10]_vars

\* The rows on display when no country is selected and everything else is
\* as in the current state: the rows on display before the country select
\* was used, since the select changes the country and the page only.
RowsOfAllCountries ==
    sortData(SelectSeq(allData, LAMBDA entry : isDateValid(entry) /\ isValueValid(entry)),
             IF sortedColumn = Null THEN "null" ELSE sortedColumn.name, sortDirection)

SelectCountryKeepsTheRest ==
    (\E k \in 1..Len(getUniqueCountries) : SelectCountry(k))
        => UNCHANGED <<allData, startDate, endDate, selectedColumn, minValue, maxValue,
                       sortedColumn, sortDirection, itemsPerPage>>

\* The rows on display when neither a country nor a column is selected and
\* everything else is as in the current state.
RowsOfDateRange ==
    sortData(SelectSeq(allData, isDateValid),
             IF sortedColumn = Null THEN "null" ELSE sortedColumn.name, sortDirection)

\* What is on display once the selections are cleared.
ClearedViewShowsDateRange ==
    (selectedCountry = <<>> /\ selectedColumn = Null) => sortedFilteredData = RowsOfDateRange

\* The reset clears the country and the column and keeps the rows, the date
\* range and the sort, so that ClearedViewShowsDateRange gives the rows on
\* display after it as RowsOfDateRange of the state before it.
ResetKeepsRangeAndSort ==
    /\ selectedCountry' = <<>>
    /\ selectedColumn' = Null
    /\ UNCHANGED <<allData, startDate, endDate, sortedColumn, sortDirection>>

\* C22 as stated: a reset after a country selection shows the rows, in the
\* order, that were on display before the selection, whatever column
\* filter was set.
CountryRoundTrip ==
    /\ []ClearedViewShowsDateRange
    /\ [][/\ SelectCountryKeepsTheRest
          /\ (resetFilters /\ selectedCountry # <<>>)
                 => (ResetKeepsRangeAndSort /\ RowsOfDateRange = RowsOfAllCountries)]_vars

\* C22: with no column filter set, a reset after a country selection shows
\* the rows, in the order, that were on display before the selection; the
\* sort column, the sort direction and the date range are kept by both steps.
CountryRoundTripWithoutColumnFilter ==
    /\ []ClearedViewShowsDateRange
    /\ [][/\ SelectCountryKeepsTheRest
          /\ (resetFilters /\ selectedCountry # <<>> /\ selectedColumn = Null)
                 => (ResetKeepsRangeAndSort /\ RowsOfDateRange = RowsOfAllCountries)]_vars

\* A country is selected and hides a row, no column filter is set, the rows
\* are sorted by a clicked column, and the reset button is on screen.
CountryRoundTripWitness ==
    /\ selectedTab = "Table"
    /\ selectedCountry # <<>>
    /\ selectedColumn = Null
    /\ sortedColumn # Null
    /\ Len(sortedFilteredData) >= 1
    /\ Len(sortedFilteredData) < Len(RowsOfAllCountries)

\* The row's date is a string the filter's new Date(entry.date) cannot parse.
FailsToParse(entry) == IsStr(entry.date) /\ NewDate(entry.date) = InvalidDate

\* C23: a row whose date string fails to parse is in the filtered rows for
\* no start and end date, set or unset; after a successful load the time
\* series has the point of its raw date string, and the row carries the
\* daily mean and maximum of the records with that same raw string.
UnparseableDatesExcluded ==
    /\ \A j \in 1..Len(filteredData) : ~FailsToParse(filteredData[j])
    /\ \A i \in 1..Len(allData) : FailsToParse(allData[i]) => ~isDateValid(allData[i])
    /\ pc = "loaded" =>
          \A i \in 1..Len(allData) :
              FailsToParse(allData[i]) =>
                  LET same == SameDate(response.records, allData[i].date)
                  IN  /\ i \in same
                      /\ \E n \in 1..Len(SumCovidData) :
                            /\ SumCovidData[n].date = allData[i].date
                            /\ SumCovidData[n].totalCases
                                   = Num(SumAt(response.records, same, "cases"))
                      /\ allData[i].averageCases
                             = Str(toFixed(Frac(SumAt(response.records, same, "cases"),
                                                Cardinality(same)), AggregateDigits))
                      /\ allData[i].maxCases
                             = Str(toFixed(Frac(MaxAt(response.records, same, "cases"), 1),
                                           AggregateDigits))

\* A row dated 20200325 is loaded next to one the filter shows, and both
\* dates of the range have been cleared.
UnparseableDatesWitness ==
    /\ pc = "loaded"
    /\ startDate = Null
    /\ endDate = Null
    /\ \E i \in 1..Len(allData) : allData[i].date = Str(DCompact) /\ FailsToParse(allData[i])
    /\ Len(filteredData) = 1
    /\ Len(allData) = 2
    /\ \E n \in 1..Len(SumCovidData) : SumCovidData[n].date = Str(DCompact)

\* The rows are those of the load, one per record and in the records' order.
RowsInLoadOrder ==
    /\ Len(allData) = Len(response.records)
    /\ \A i \in 1..Len(allData) :
          /\ allData[i].country = response.records[i].countriesAndTerritories
          /\ allData[i].date = response.records[i].dateRep
          /\ allData[i].cases = response.records[i].cases
          /\ allData[i].deaths = response.records[i].deaths

\* C24: once the load has ended no step changes the row list, neither a
\* field of a row nor the length or the order of the list; the rows stay
\* the records' rows in the records' order however the view is filtered,
\* sorted, paged or reset.
RowsFrozenAfterLoad ==
    /\ [](pc = "loaded" => RowsInLoadOrder)
    /\ [][pc # "fetching" => allData' = allData]_vars

\* After the load the view is sorted downwards into another order than the
\* row list's, on a page of one row, with a column filter set.
RowsFrozenWitness ==
    /\ pc = "loaded"
    /\ RowsInLoadOrder
    /\ sortDirection = "desc"
    /\ sortedFilteredData # filteredData
    /\ selectedColumn # Null
    /\ itemsPerPage = 1
    /\ currentPage = 2

(***************************************************************************)
(* The application over a table of several pages                           *)
(***************************************************************************)
MaxViewRows == 7

InitView ==
    \E answer \in {Rejected, Ok(ThrowingPayload), Ok(PagePayload(MaxViewRows))} :
        InitWith(answer)

SpecView == InitView /\ [][Next]_vars

\* C25: in every state 1 <= currentPage <= max(1, totalPages), and every
\* step that changes a filter field or itemsPerPage leaves currentPage at 1.
CurrentPageInRange ==
    /\ [](1 <= currentPage /\ currentPage <= Max(1, totalPages))
    /\ [][<<selectedCountry, startDate, endDate, selectedColumn, minValue, maxValue,
            itemsPerPage>>' # <<selectedCountry, startDate, endDate, selectedColumn,
                                minValue, maxValue, itemsPerPage>>
              => currentPage' = 1]_vars

\* The last of seven or more pages is shown, the table sorted by a column
\* and a date filter set by hand.
CurrentPageWitness ==
    /\ pc = "loaded"
    /\ totalPages >= 7
    /\ currentPage = totalPages
    /\ sortedColumn # Null
    /\ startDate = Null

\* C26: right after a successful load, nothing yet selected or typed, every
\* row whose date is a valid day/month/year date is among the filtered rows.
DefaultViewShowsEverything ==
    (/\ pc = "loaded"
     /\ selectedCountry = <<>>
     /\ selectedColumn = Null
     /\ startDate = minDate
     /\ endDate = maxDate)
        => \A i \in 1..Len(allData) :
               IsCalendarDate(allData[i].date) => FilterPasses(allData[i])

\* C27: once an option of the country select is selected, the country
\* clause passes for exactly the rows whose country string is the option's
\* value, and so for at least one row.
CountrySelectionExact ==
    \A k \in 1..Len(getUniqueCountries) :
        selectedCountry = getUniqueCountries[k].value.s =>
            /\ \A i \in 1..Len(allData) :
                  countryMatches(allData[i]) <=> allData[i].country = getUniqueCountries[k].value
            /\ \E i \in 1..Len(allData) : countryMatches(allData[i])

\* The row has its country's totals and, as strings of 4 fraction digits,
\* its date's means and maxima; none is the placeholder 0 of NewData.
FullyBackFilled(row) ==
    /\ row.totalCases
           = Num(SumAt(response.records, SameCountry(response.records, row.country), "cases"))
    /\ row.totalDeaths
           = Num(SumAt(response.records, SameCountry(response.records, row.country), "deaths"))
    /\ IsStr(row.averageCases) /\ IsStr(row.averageDeaths)
    /\ IsStr(row.maxCases) /\ IsStr(row.maxDeaths)

\* C28: in every state the row list is empty or holds one fully back-filled
\* row per record, and the time series is populated only with such rows.
LoadAllOrNothing ==
    /\ \/ allData = <<>>
       \/ /\ Len(allData) = Len(response.records)
          /\ \A i \in 1..Len(allData) : FullyBackFilled(allData[i])
    /\ SumCovidData # <<>> =>
          (allData # <<>> /\ \A i \in 1..Len(allData) : FullyBackFilled(allData[i]))

\* The day numbers of the records whose date is a day/month/year date.
RecordDays ==
    {CalendarDay(response.records[i].dateRep) :
        i \in {j \in 1..Len(response.records) : IsCalendarDate(response.records[j].dateRep)}}

EarliestDay == CHOOSE d \in RecordDays : \A e \in RecordDays : d <= e

LatestDay == CHOOSE d \in RecordDays : \A e \in RecordDays : d >= e

\* Every record has a day/month/year date, and there is a record.
AllRecordsDated ==
    /\ response.records # <<>>
    /\ \A i \in 1..Len(response.records) : IsCalendarDate(response.records[i].dateRep)

\* The end of the load keeps what the user set but the dates.
LoadKeepsUserInput ==
    UNCHANGED <<selectedColumn, minValue, maxValue, itemsPerPage, sortedColumn, sortDirection>>

HeaderClick(column) ==
    /\ IF sortedColumn = Name(column)
       THEN /\ sortedColumn' = sortedColumn
            /\ sortDirection' = (IF sortDirection = "asc" THEN "desc" ELSE "asc")
       ELSE /\ sortedColumn' = Name(column)
            /\ sortDirection' = "asc"
    /\ UNCHANGED <<selectedCountry, startDate, endDate, selectedColumn, minValue, maxValue,
                   currentPage, itemsPerPage>>

\* C30: sortDirection is always 'asc' or 'desc'; as long as no header was
\* clicked sortedColumn is unset, sortDirection is 'asc' and the rows are
\* shown in the filtered order; a click on another header than the sort
\* column's makes it the sort column, ascending; a click on the sort
\* column's header only toggles the direction; a click changes no filter
\* field and not currentPage.
SortStateMachine ==
    /\ [](sortDirection \in {"asc", "desc"})
    /\ [](sortedColumn = Null => (sortDirection = "asc" /\ sortedFilteredData = filteredData))
    /\ [][\A column \in SortInputs : handleColumnSort(column) => HeaderClick(column)]_vars

\* Sorted by cases, downwards, on the second page, in another order than
\* the filtered one.
SortStateWitness ==
    /\ pc = "loaded"
    /\ sortedColumn = Name("cases")
    /\ sortDirection = "desc"
    /\ currentPage = 2
    /\ sortedFilteredData # filteredData

====
